---- MODULE Spec2Model ----
(***************************************************************************)
(* Reactive notebook kernel: the dependency graph of                       *)
(* backend/app/core/graph.py and the request loop of                       *)
(* backend/app/kernel/process.py, driven on their own and through the      *)
(* coordinator of backend/app/orchestration/coordinator.py; and the        *)
(* in-process scheduler of backend/scheduler.py with the locked notebook   *)
(* operations of backend/notebook_operations.py.                           *)
(***************************************************************************)
EXTENDS Integers, Sequences, FiniteSets, TLC

\* ---------------------------------------------------------------- bounds
NumCells == 3
NumNames == 2
MaxRegister == 3
MaxExecute == 2
MaxGraphOps == 3
MaxCoordOps == 3
MaxEnqueue == 3
MaxTasks == 2
NumCallers == 2
MaxOps == 2
NumConns == 2
NumNotebooks == 2
MaxEmit == 2
MaxLoaded == 1
NumHubCells == 1
NumSockets == 3
MaxBroadcasts == 2
MaxAttach == 3
NumToolCalls == 2
NumStoreCoords == 2
MaxFileOps == 3
MaxCodeLines == 2

Cells == 1..NumCells
Names == 1..NumNames

VARIABLES
    graph,          \* DependencyGraph: _graph (nodes, edges), _cell_writes, _cell_reads, _var_writers
    cell_registry,  \* kernel_main: cell_id -> (code, cell_type)
    has_run,        \* kernel_main: cell_id -> has executed successfully
    request,        \* the request the kernel loop took last from input_queue
    cells_to_run,   \* the Execute handler's list of cells
    idx,            \* position of the Execute handler's for loop in cells_to_run
    out,            \* notifications put on output_queue by the request being handled
    pass_has_run,   \* has_run as it was when the Execute handler computed cells_to_run
    last_status,    \* cell_id -> final status of its most recent execution
    n_register,     \* RegisterCell requests handled
    n_execute,      \* Execute requests handled
    n_graph_ops,    \* update_cell / remove_cell calls made directly on the graph
    call,           \* the last call made on the graph: which method, on which cell, raised or not
    nb_cells,       \* NotebookCoordinator.notebook.cells
    input_queue,    \* KernelManager.input_queue: requests put and not yet taken by the kernel
    next_id,        \* the next cell id that a creation draws
    updated,        \* ids of the cells that handle_cell_update was called on
    n_coord_ops,    \* coordinator commands handled
    nb_edges,       \* Notebook.graph of the scheduler's notebook: edges (reverse_edges is its mirror)
    cell_status,    \* Cell.status of the cells of the scheduler's notebook
    pending_runs,   \* ExecutionScheduler.pending_runs[notebook_id]
    tasks,          \* the drain tasks created so far; the last is current_tasks[notebook_id]
    enq_calls,      \* cell id -> enqueue_run calls since the last snapshot of pending_runs
    n_enqueue,      \* enqueue_run calls made
    op_cells,       \* Notebook.cells of the notebook that the locked operations work on
    op_edges,       \* Notebook.graph of that notebook
    revision,       \* Notebook.revision
    lock_owner,     \* the caller that holds Notebook._lock, 0 when it is free
    callers,        \* caller -> its current call of a locked operation and the outcome
    n_ops,          \* calls of locked operations made
    op_next_id,     \* the id that the next locked_create_cell draws
    n_returned,     \* calls of locked operations that returned successfully
    n_save_failed,  \* calls of locked operations that save_notebook raised out of
    active_connections, \* ConnectionManager: the connection ids, in the dict's order
    sockets,        \* the WebSocket of each connection id: notebook, state, messages received
    coordinators,   \* the NotebookCoordinator made for each connection id, with its kernel
    n_emit,         \* notifications put on output queues by kernels
    connections,    \* WebSocketBroadcaster: notebook_id -> set of websockets
    ws_state,       \* legacy websockets: "new", "open", "closed" (send raises), "hung" (send never ends)
    ws_received,    \* legacy websockets: the broadcasts received
    broadcasts,     \* the calls of WebSocketBroadcaster.broadcast
    n_attach,       \* calls of WebSocketBroadcaster.connect and disconnect
    tool_calls,     \* the calls of tool_run_cell: cell, position, result
    nb_file,        \* the lines of the notebook's .py file under NOTEBOOKS_DIR
    last_saved,     \* the NotebookResponse that serialize_notebook was last called with
    coord_nb,       \* coordinator -> its self.notebook, name "unloaded" before load_notebook
    last_store_op,  \* the last command that wrote the file: its path and its cell
    n_file_ops,     \* commands that wrote the file
    file_next_id    \* the id that the next created cell draws

kernelVars == <<graph, cell_registry, has_run, request, cells_to_run, idx, out,
                pass_has_run, last_status, n_register, n_execute, n_graph_ops, call>>

coordVars == <<nb_cells, input_queue, next_id, updated, n_coord_ops>>

schedVars == <<nb_edges, cell_status, pending_runs, tasks, enq_calls, n_enqueue>>

opsVars == <<op_cells, op_edges, revision, lock_owner, callers, n_ops,
             op_next_id, n_returned, n_save_failed>>

hubVars == <<active_connections, sockets, coordinators, n_emit>>
bcastVars == <<connections, ws_state, ws_received, broadcasts, n_attach>>
toolVars == <<tool_calls>>
fileVars == <<nb_file, last_saved, coord_nb, last_store_op, n_file_ops, file_next_id>>
otherVars == <<toolVars, fileVars>>
netVars == <<hubVars, bcastVars, otherVars>>
vars == <<kernelVars, coordVars, schedVars, opsVars, netVars>>

\* ------------------------------------------------------------ dictionaries
\* dict.get(k, default)
Get(d, k, default) == IF k \in DOMAIN d THEN d[k] ELSE default

\* d[k] = v
Put(d, k, v) == [x \in (DOMAIN d) \cup {k} |-> IF x = k THEN v ELSE d[x]]

\* del d[k] for every k in ks
Del(d, ks) == [x \in (DOMAIN d) \ ks |-> d[x]]

\* ------------------------------------------------------------ graph walks
Successors(E, S) == {e[2] : e \in {f \in E : f[1] \in S}}

RECURSIVE Reach(_, _)
Reach(E, S) ==
    LET T == S \cup Successors(E, S)
    IN  IF T = S THEN S ELSE Reach(E, T)

\* nx.descendants(G, n): nodes reachable from n, n excluded
Descendants(E, n) == Reach(E, Successors(E, {n})) \ {n}

\* nx.ancestors(G, n): nodes from which n is reachable, n excluded
Ancestors(E, n) == {m \in ({e[1] : e \in E} \cup {e[2] : e \in E}) \ {n} : n \in Reach(E, {m})}

\* nx.has_path(G, source, target)
HasPath(E, source, target) == target \in Reach(E, {source})

IsDAG(E) == \A e \in E : ~HasPath(E, e[2], e[1])

\* ------------------------------------------------------- DependencyGraph
EmptyGraph ==
    [nodes |-> {}, edges |-> {}, cell_writes |-> <<>>, cell_reads |-> <<>>, var_writers |-> <<>>]

WouldEdgeCreateCycleSelfOnly(G, from_cell, to_cell) == from_cell = to_cell

\* DependencyGraph._would_edge_create_cycle
WouldEdgeCreateCycle(G, from_cell, to_cell) ==
    IF from_cell = to_cell THEN TRUE
    ELSE IF to_cell \notin G.nodes THEN FALSE
    ELSE IF from_cell \notin G.nodes THEN FALSE
    ELSE HasPath(G.edges, to_cell, from_cell)

\* update_cell, first loop: edges from the designated writers of what we read
NewParentEdges(G, cell_id, reads) ==
    {<<G.var_writers[var], cell_id>> : var \in {v \in reads \cap DOMAIN G.var_writers : G.var_writers[v] # cell_id}}

NewChildEdgesNone(G, cell_id, writes) == {}

\* update_cell, second loop: edges to the other nodes that read what we write
NewChildEdges(G, cell_id, writes) ==
    {<<cell_id, other_cell>> : other_cell \in
        {o \in G.nodes \ {cell_id} : Get(G.cell_reads, o, {}) \cap writes # {}}}

\* All orders in which a set of edges can be iterated
RECURSIVE Orders(_)
Orders(S) ==
    IF S = {} THEN {<<>>}
    ELSE UNION {{<<e>> \o t : t \in Orders(S \ {e})} : e \in S}

\* update_cell, the check loop over all_new_edges: every edge is tested on the
\* graph that already holds the edges tested before it, and a failed test
\* raises out of the loop with those edges still in the graph.
RECURSIVE CheckEdges(_, _)
CheckEdges(G, all_new_edges) ==
    IF all_new_edges = <<>> THEN [raised |-> FALSE, graph |-> G]
    ELSE LET from_cell == Head(all_new_edges)[1]
             to_cell == Head(all_new_edges)[2]
         IN  IF WouldEdgeCreateCycle(G, from_cell, to_cell)
             THEN [raised |-> TRUE, graph |-> G]
             ELSE CheckEdges([G EXCEPT !.nodes = @ \cup {from_cell, to_cell},
                                       !.edges = @ \cup {<<from_cell, to_cell>>}],
                             Tail(all_new_edges))

\* update_cell after the check loop: drop the temporary edges, then mutate
Mutate(G, cell_id, reads, writes, parent_edges, child_edges) ==
    LET temp_removed == G.edges \ (parent_edges \cup child_edges)
        node_removed == {e \in temp_removed : e[1] # cell_id /\ e[2] # cell_id}
        old_writes == Get(G.cell_writes, cell_id, {})
        cleared == Del(G.var_writers,
                       {v \in old_writes \cap DOMAIN G.var_writers : G.var_writers[v] = cell_id})
    IN  [nodes |-> G.nodes \cup {cell_id}
                     \cup {e[1] : e \in parent_edges \cup child_edges}
                     \cup {e[2] : e \in parent_edges \cup child_edges},
         edges |-> node_removed \cup parent_edges \cup child_edges,
         cell_writes |-> Put(G.cell_writes, cell_id, writes),
         cell_reads |-> Put(G.cell_reads, cell_id, reads),
         var_writers |-> [v \in (DOMAIN cleared) \cup writes |->
                             IF v \in writes THEN cell_id ELSE cleared[v]]]

\* DependencyGraph.update_cell: the outcomes of one call, one per iteration
\* order of the reads and of the writes / nodes
UpdateCell(G, cell_id, reads, writes) ==
    LET parent_edges == NewParentEdges(G, cell_id, reads)
        child_edges == NewChildEdges(G, cell_id, writes)
    IN  {LET checked == CheckEdges(G, po \o co)
         IN  IF checked.raised
             THEN [raised |-> TRUE, graph |-> checked.graph]
             ELSE [raised |-> FALSE,
                   graph |-> Mutate(checked.graph, cell_id, reads, writes, parent_edges, child_edges)]
         : po \in Orders(parent_edges), co \in Orders(child_edges)}

\* DependencyGraph.remove_cell
RemoveCell(G, cell_id) ==
    LET old_writes == Get(G.cell_writes, cell_id, {})
    IN  [nodes |-> G.nodes \ {cell_id},
         edges |-> {e \in G.edges : e[1] # cell_id /\ e[2] # cell_id},
         cell_writes |-> Del(G.cell_writes, {cell_id}),
         cell_reads |-> Del(G.cell_reads, {cell_id}),
         var_writers |-> Del(G.var_writers,
                             {v \in old_writes \cap DOMAIN G.var_writers : G.var_writers[v] = cell_id})]

\* --------------------------------------------------------------- parsing
\* A cell's code is represented by the names it loads and stores at module
\* level; a SQL cell has only template reads.
PythonCodes ==
    {[reads |-> {}, writes |-> {1}],        \* x = 1
     [reads |-> {1}, writes |-> {2}],       \* y = x
     [reads |-> {2}, writes |-> {1}],       \* x = y
     [reads |-> {1, 2}, writes |-> {}],     \* print(x + y)
     [reads |-> {1}, writes |-> {1}]}       \* x += 1
SqlCodes ==
    {[reads |-> {2}, writes |-> {}]}        \* SELECT {y}

\* process.py 41-46: extract_python_dependencies / extract_sql_dependencies
ExtractDependencies(code, cell_type) ==
    IF cell_type = "python"
    THEN [reads |-> code.reads, writes |-> code.writes]
    ELSE [reads |-> code.reads, writes |-> {}]

\* ---------------------------------------------------------- notifications
Notification(cell_id, channel, data) == [cell_id |-> cell_id, channel |-> channel, data |-> data]

StatusNote(cell_id, status) == Notification(cell_id, "status", status)

\* ------------------------------------------------------------ kernel_main
Idle == idx > Len(cells_to_run)

HasRunOf(h, c) == Get(h, c, FALSE)

TopologicalSortsAnyOrder(E, S) == Orders(S)

\* nx.topological_sort(subgraph): any order of the nodes that puts every edge's
\* source before its target
TopologicalSorts(E, S) ==
    {o \in Orders(S) :
        \A i, j \in 1..Len(o) : (<<o[i], o[j]>> \in E) => i < j}

\* process.py 193-204
StaleAncestors(G, h, c) == {a \in Ancestors(G.edges, c) : ~HasRunOf(h, a)}

Affected(G, h, c) == StaleAncestors(G, h, c) \cup {c} \cup Descendants(G.edges, c)

\* process.py 55-65: has_run is cleared for the cell and its descendants
InvalidateSelfOnly(h, G, cell_id) ==
    [x \in (DOMAIN h) \cup {cell_id} |-> IF x = cell_id THEN FALSE ELSE h[x]]

Invalidate(h, G, cell_id) ==
    LET stale == {cell_id} \cup (IF cell_id \in G.nodes THEN Descendants(G.edges, cell_id) ELSE {})
    IN  [x \in (DOMAIN h) \cup stale |-> IF x \in stale THEN FALSE ELSE h[x]]

RegisterNotesStatusOnly(cell_id, deps, raised) ==
    <<StatusNote(cell_id, IF raised THEN "blocked" ELSE "idle")>>

\* process.py 67-109: the two notifications of a register_cell request
RegisterNotes(cell_id, deps, raised) ==
    IF raised
    THEN <<Notification(cell_id, "error", "CycleDetectedError"), StatusNote(cell_id, "blocked")>>
    ELSE <<Notification(cell_id, "metadata", deps), StatusNote(cell_id, "idle")>>

\* process.py 164-187: the answer to an execute request for an unregistered cell
NotRegisteredNotes(G, cell_id) ==
    IF cell_id \in G.nodes
    THEN <<>>
    ELSE <<Notification(cell_id, "error", "CellNotRegistered")>>

\* process.py 36-114: the register_cell request
RegisterCell(cell_id, code, cell_type) ==
    /\ Idle
    /\ n_register < MaxRegister
    /\ n_register' = n_register + 1
    /\ request' = [type |-> "register_cell", cell_id |-> cell_id]
    /\ LET deps == ExtractDependencies(code, cell_type)
       IN  \E res \in UpdateCell(graph, cell_id, deps.reads, deps.writes) :
             /\ graph' = res.graph
             /\ call' = [op |-> "update_cell", cell_id |-> cell_id, raised |-> res.raised]
             /\ IF ~res.raised
                THEN /\ cell_registry' = Put(cell_registry, cell_id,
                                             [code |-> code, cell_type |-> cell_type])
                     /\ has_run' = Invalidate(has_run, res.graph, cell_id)
                     /\ out' = RegisterNotes(cell_id, deps, FALSE)
                ELSE /\ UNCHANGED <<cell_registry, has_run>>
                     /\ out' = RegisterNotes(cell_id, deps, TRUE)
    /\ UNCHANGED <<cells_to_run, idx, pass_has_run, last_status, n_execute, n_graph_ops>>

\* process.py 155-214: the execute request up to the for loop
Execute(cell_id) ==
    /\ Idle
    /\ n_execute < MaxExecute
    /\ n_execute' = n_execute + 1
    /\ request' = [type |-> "execute", cell_id |-> cell_id]
    /\ pass_has_run' = has_run
    /\ idx' = 1
    /\ IF cell_id \notin DOMAIN cell_registry
       THEN /\ cells_to_run' = <<>>
            /\ out' = NotRegisteredNotes(graph, cell_id)
       ELSE /\ out' = <<>>
            /\ IF cell_id \in graph.nodes
               THEN cells_to_run' \in TopologicalSorts(graph.edges, Affected(graph, has_run, cell_id))
               ELSE cells_to_run' = <<cell_id>>
    /\ UNCHANGED <<graph, cell_registry, has_run, last_status, n_register, n_graph_ops, call>>

\* What an executor can return (core/executor.py ExecutionResult): the status;
\* printed text and rich outputs are passed on as further notifications of the
\* cell between its running and its final status and touch no kernel state.
ExecResults == [status : {"success", "error"}]

\* process.py 225-314: the notifications of one executed cell
CellNotes(cell_id, deps, exec_result) ==
    <<StatusNote(cell_id, "running")>>
    \o <<StatusNote(cell_id, exec_result.status)>>
    \o (IF exec_result.status = "error"
        THEN <<Notification(cell_id, "error", "RuntimeError")>> ELSE <<>>)
    \o <<Notification(cell_id, "metadata", deps)>>

\* process.py 218-314: one iteration of the for loop over cells_to_run
RunCell ==
    /\ ~Idle
    /\ idx' = idx + 1
    /\ LET cell_id == cells_to_run[idx]
       IN  IF cell_id \notin DOMAIN cell_registry
           THEN UNCHANGED <<out, has_run, last_status>>
           ELSE \E exec_result \in ExecResults :
                  LET entry == cell_registry[cell_id]
                      deps == ExtractDependencies(entry.code, entry.cell_type)
                  IN  /\ out' = out \o CellNotes(cell_id, deps, exec_result)
                      /\ has_run' = IF exec_result.status = "success"
                                    THEN Put(has_run, cell_id, TRUE)
                                    ELSE has_run
                      /\ last_status' = Put(last_status, cell_id, exec_result.status)
    /\ UNCHANGED <<graph, cell_registry, request, cells_to_run, pass_has_run,
                   n_register, n_execute, n_graph_ops, call>>

InitKernel ==
    /\ graph = EmptyGraph
    /\ cell_registry = <<>>
    /\ has_run = <<>>
    /\ request = [type |-> "none", cell_id |-> 0]
    /\ cells_to_run = <<>>
    /\ idx = 1
    /\ out = <<>>
    /\ pass_has_run = <<>>
    /\ last_status = <<>>
    /\ n_register = 0
    /\ n_execute = 0
    /\ n_graph_ops = 0
    /\ call = [op |-> "none", cell_id |-> 0, raised |-> FALSE]

\* coordinator.py 25-36: a coordinator that has loaded no notebook
InitNoNotebook ==
    /\ nb_cells = <<>>
    /\ input_queue = <<>>
    /\ next_id = 1
    /\ updated = {}
    /\ n_coord_ops = 0

\* scheduler.py 15-18: a scheduler that was never asked to run a cell
InitNoScheduler ==
    /\ nb_edges = {}
    /\ cell_status = <<>>
    /\ pending_runs = {}
    /\ tasks = <<>>
    /\ enq_calls = <<>>
    /\ n_enqueue = 0

\* models.py 78-86: an empty notebook that no locked operation is called on
InitNoOps ==
    /\ op_cells = <<>>
    /\ op_edges = {}
    /\ revision = 0
    /\ lock_owner = 0
    /\ callers = <<>>
    /\ n_ops = 0
    /\ op_next_id = 1
    /\ n_returned = 0
    /\ n_save_failed = 0

Conns == 1..NumConns
Notebooks == 1..NumNotebooks
Sockets == 1..NumSockets

\* coordinator.py 25-36 before __init__ has run: no kernel, no reader
NoCoordinator ==
    [kernel |-> "none", for_notebook |-> 0, notebook_id |-> 0, registered |-> FALSE,
     running |-> FALSE, task |-> "none", output_queue |-> <<>>, emitted |-> 0,
     msg |-> <<>>, todo |-> <<>>, size |-> 0, kernel_errors |-> 0, after_error |-> 0]

NoSocket == [notebook |-> 0, state |-> "none", received |-> <<>>]

\* handler.py 9-11: a ConnectionManager without connections
InitNoHub ==
    /\ active_connections = <<>>
    /\ sockets = [c \in Conns |-> NoSocket]
    /\ coordinators = [c \in Conns |-> NoCoordinator]
    /\ n_emit = 0

\* websocket.py 12-13: a WebSocketBroadcaster without connections
InitNoBroadcaster ==
    /\ connections = [nb \in Notebooks |-> {}]
    /\ ws_state = [w \in Sockets |-> "new"]
    /\ ws_received = [w \in Sockets |-> {}]
    /\ broadcasts = <<>>
    /\ n_attach = 0

\* A tool_run_cell that has not been called
NoToolCall == [pc |-> "none", cell_id |-> 0, result |-> "none", fresh |-> FALSE]

InitNoTool == tool_calls = [k \in 1..NumToolCalls |-> NoToolCall]

\* A coordinator whose load_notebook has not run: self.notebook is None
NoNotebook == [name |-> "unloaded", cells |-> <<>>]

\* No command has written a file
NoStoreOp == [by |-> "none", cell_id |-> 0]

\* No notebook file is looked at
InitNoFile ==
    /\ nb_file = <<>>
    /\ last_saved = NoNotebook
    /\ coord_nb = [k \in 1..NumStoreCoords |-> NoNotebook]
    /\ last_store_op = NoStoreOp
    /\ n_file_ops = 0
    /\ file_next_id = 1

InitNoOther == InitNoTool /\ InitNoFile

InitNoNet == InitNoHub /\ InitNoBroadcaster /\ InitNoOther

Init == InitKernel /\ InitNoNotebook /\ InitNoScheduler /\ InitNoOps /\ InitNoNet

Next ==
    \/ \E c \in Cells : \E code \in PythonCodes :
         RegisterCell(c, code, "python") /\ UNCHANGED <<coordVars, schedVars, opsVars, netVars>>
    \/ \E c \in Cells : \E code \in SqlCodes :
         RegisterCell(c, code, "sql") /\ UNCHANGED <<coordVars, schedVars, opsVars, netVars>>
    \/ \E c \in Cells : Execute(c) /\ UNCHANGED <<coordVars, schedVars, opsVars, netVars>>
    \/ RunCell /\ UNCHANGED <<coordVars, schedVars, opsVars, netVars>>

Spec == Init /\ [][Next]_vars

\* ------------------------------------------- the graph driven on its own
GraphUpdateCell(cell_id, reads, writes) ==
    /\ n_graph_ops < MaxGraphOps
    /\ n_graph_ops' = n_graph_ops + 1
    /\ \E res \in UpdateCell(graph, cell_id, reads, writes) :
         /\ graph' = res.graph
         /\ call' = [op |-> "update_cell", cell_id |-> cell_id, raised |-> res.raised]
    /\ UNCHANGED <<cell_registry, has_run, request, cells_to_run, idx, out,
                   pass_has_run, last_status, n_register, n_execute>>

GraphRemoveCell(cell_id) ==
    /\ n_graph_ops < MaxGraphOps
    /\ n_graph_ops' = n_graph_ops + 1
    /\ graph' = RemoveCell(graph, cell_id)
    /\ call' = [op |-> "remove_cell", cell_id |-> cell_id, raised |-> FALSE]
    /\ UNCHANGED <<cell_registry, has_run, request, cells_to_run, idx, out,
                   pass_has_run, last_status, n_register, n_execute>>

NextGraph ==
    \/ \E c \in Cells : \E reads \in SUBSET Names : \E writes \in SUBSET Names :
         GraphUpdateCell(c, reads, writes) /\ UNCHANGED <<coordVars, schedVars, opsVars, netVars>>
    \/ \E c \in Cells : GraphRemoveCell(c) /\ UNCHANGED <<coordVars, schedVars, opsVars, netVars>>

SpecGraph == Init /\ [][NextGraph]_vars

\* ------------------------------------------- get_execution_order
GetExecutionOrderUnsorted(G, changed_cell_id) ==
    IF changed_cell_id \notin G.nodes
    THEN {<<changed_cell_id>>}
    ELSE Orders({changed_cell_id} \cup Descendants(G.edges, changed_cell_id))

\* graph.py 154-183: DependencyGraph.get_execution_order, the lists that
\* nx.topological_sort can return for the subgraph of the cell and its
\* descendants
GetExecutionOrder(G, changed_cell_id) ==
    IF changed_cell_id \notin G.nodes
    THEN {<<changed_cell_id>>}
    ELSE TopologicalSorts(G.edges, {changed_cell_id} \cup Descendants(G.edges, changed_cell_id))

\* A caller asks the graph for the execution order of a cell
GetExecutionOrderCall(changed_cell_id) ==
    /\ \E order \in GetExecutionOrder(graph, changed_cell_id) :
         call' = [op |-> "get_execution_order", cell_id |-> changed_cell_id,
                  raised |-> FALSE, order |-> order]
    /\ UNCHANGED <<graph, cell_registry, has_run, request, cells_to_run, idx, out,
                   pass_has_run, last_status, n_register, n_execute, n_graph_ops>>

NextOrder ==
    \/ \E c \in Cells : \E code \in PythonCodes :
         GraphUpdateCell(c, code.reads, code.writes) /\ UNCHANGED <<coordVars, schedVars, opsVars, netVars>>
    \/ \E c \in Cells : GraphRemoveCell(c) /\ UNCHANGED <<coordVars, schedVars, opsVars, netVars>>
    \/ \E c \in Cells :
         GetExecutionOrderCall(c) /\ UNCHANGED <<coordVars, schedVars, opsVars, netVars>>

SpecOrder == Init /\ [][NextOrder]_vars

\* ------------------------------------- the kernel behind the coordinator
\* The code of an empty cell: ast_parser gives reads = {} and writes = {}
EmptyCode == [reads |-> {}, writes |-> {}]

CellIds(cells) == {cells[i].id : i \in DOMAIN cells}

\* next((c for c in self.notebook.cells if c.id == cell_id), None)
CellIndex(cells, cell_id) ==
    IF cell_id \in CellIds(cells)
    THEN CHOOSE i \in DOMAIN cells : cells[i].id = cell_id /\ \A j \in 1..(i - 1) : cells[j].id # cell_id
    ELSE 0

\* list.insert(index, cell) with index counted from 0
InsertAt(cells, index, cell) ==
    SubSeq(cells, 1, index) \o <<cell>> \o SubSeq(cells, index + 1, Len(cells))

\* list.pop(i) with i counted from 1
PopAt(cells, i) == SubSeq(cells, 1, i - 1) \o SubSeq(cells, i + 1, Len(cells))

RegisterCellRequest(cell) ==
    [type |-> "register_cell", cell_id |-> cell.id, code |-> cell.code, cell_type |-> cell.type]

ExecuteRequest(cell) ==
    [type |-> "execute", cell_id |-> cell.id, code |-> cell.code, cell_type |-> cell.type]

\* The codes a client may give a cell of the type
CodesOf(cell_type) == IF cell_type = "python" THEN PythonCodes \cup {EmptyCode} ELSE SqlCodes

\* Requests of the type that are in input_queue
Queued(type) == Cardinality({i \in DOMAIN input_queue : input_queue[i].type = type})

\* The stored notebook that load_notebook parses: c1 "x = 1", c2 "y = x"
StoredNotebook ==
    << [id |-> 1, type |-> "python", code |-> [reads |-> {}, writes |-> {1}]],
       [id |-> 2, type |-> "python", code |-> [reads |-> {1}, writes |-> {2}]] >>

\* coordinator.py 155-177: load_notebook puts a RegisterCellRequest per cell
InitLoaded ==
    /\ nb_cells = StoredNotebook
    /\ input_queue = [i \in DOMAIN StoredNotebook |-> RegisterCellRequest(StoredNotebook[i])]
    /\ next_id = Len(StoredNotebook) + 1
    /\ updated = {}
    /\ n_coord_ops = 0

\* coordinator.py 250-296
HandleCreateCell(cell_type, after_cell_id) ==
    /\ n_coord_ops < MaxCoordOps
    /\ next_id \in Cells
    /\ LET new_cell == [id |-> next_id, type |-> cell_type, code |-> EmptyCode]
           found == CellIndex(nb_cells, after_cell_id)
       IN  nb_cells' = IF after_cell_id # 0 /\ found # 0
                       THEN InsertAt(nb_cells, found, new_cell)
                       ELSE Append(nb_cells, new_cell)
    /\ next_id' = next_id + 1
    /\ n_coord_ops' = n_coord_ops + 1
    /\ UNCHANGED <<input_queue, updated>>

\* coordinator.py 183-205
HandleCellUpdate(cell_id, new_code) ==
    /\ n_coord_ops < MaxCoordOps
    /\ n_register + Queued("register_cell") < MaxRegister
    /\ n_coord_ops' = n_coord_ops + 1
    /\ LET i == CellIndex(nb_cells, cell_id)
       IN  IF i = 0
           THEN UNCHANGED <<nb_cells, input_queue, updated>>
           ELSE /\ new_code \in CodesOf(nb_cells[i].type)
                /\ nb_cells' = [nb_cells EXCEPT ![i].code = new_code]
                /\ input_queue' = Append(input_queue, RegisterCellRequest(nb_cells'[i]))
                /\ updated' = updated \cup {cell_id}
    /\ UNCHANGED next_id

\* coordinator.py 221-239
HandleRunCell(cell_id) ==
    /\ n_coord_ops < MaxCoordOps
    /\ n_execute + Queued("execute") < MaxExecute
    /\ n_coord_ops' = n_coord_ops + 1
    /\ LET i == CellIndex(nb_cells, cell_id)
       IN  IF i = 0
           THEN UNCHANGED input_queue
           ELSE input_queue' = Append(input_queue, ExecuteRequest(nb_cells[i]))
    /\ UNCHANGED <<nb_cells, next_id, updated>>

\* coordinator.py 298-314
HandleDeleteCell(cell_id) ==
    /\ n_coord_ops < MaxCoordOps
    /\ n_coord_ops' = n_coord_ops + 1
    /\ LET i == CellIndex(nb_cells, cell_id)
       IN  IF i = 0
           THEN UNCHANGED nb_cells
           ELSE nb_cells' = PopAt(nb_cells, i)
    /\ UNCHANGED <<input_queue, next_id, updated>>

\* process.py 26-36, 155: the kernel takes the next request from input_queue
KernelTake ==
    /\ input_queue # <<>>
    /\ LET r == Head(input_queue)
       IN  IF r.type = "register_cell"
           THEN RegisterCell(r.cell_id, r.code, r.cell_type)
           ELSE Execute(r.cell_id)
    /\ input_queue' = Tail(input_queue)
    /\ UNCHANGED <<nb_cells, next_id, updated, n_coord_ops>>

NextCoord ==
    \/ \E t \in {"python", "sql"} : \E after \in {0} \cup Cells :
         HandleCreateCell(t, after) /\ UNCHANGED <<kernelVars, schedVars, opsVars, netVars>>
    \/ \E c \in Cells : \E code \in CodesOf("python") \cup CodesOf("sql") :
         HandleCellUpdate(c, code) /\ UNCHANGED <<kernelVars, schedVars, opsVars, netVars>>
    \/ \E c \in Cells : HandleRunCell(c) /\ UNCHANGED <<kernelVars, schedVars, opsVars, netVars>>
    \/ \E c \in Cells : HandleDeleteCell(c) /\ UNCHANGED <<kernelVars, schedVars, opsVars, netVars>>
    \/ KernelTake /\ UNCHANGED <<schedVars, opsVars, netVars>>
    \/ RunCell /\ UNCHANGED <<coordVars, schedVars, opsVars, netVars>>

InitCoord == InitKernel /\ InitLoaded /\ InitNoScheduler /\ InitNoOps /\ InitNoNet

SpecCoord == InitCoord /\ [][NextCoord]_vars

\* ------------------------------------------- the in-process scheduler
\* A cell id that a run_cell message may carry and that is not in the notebook
UnknownId == NumCells + 1

SchedIds == Cells \cup {UnknownId}

\* Graphs that rebuild_graph leaves in a notebook of three cells: no edge,
\* the chain c1 -> c2 -> c3, c1 read by c2 and c3, c3 reading c1 and c2, and
\* the cycle c1 <-> c2 that locked_update_cell keeps after reporting it
SchedGraphs ==
    { {},
      {<<1, 2>>, <<2, 3>>},
      {<<1, 2>>, <<1, 3>>},
      {<<1, 3>>, <<2, 3>>},
      {<<1, 2>>, <<2, 1>>} }

\* graph.py 94-106: the DFS adds every cell reached over a dependent edge
GetAllDependents(E, cell_id) == Reach(E, Successors(E, {cell_id}))

\* scheduler.py 60-64
AllToRun(E, pending_cells) ==
    pending_cells \cup UNION {GetAllDependents(E, c) : c \in pending_cells}

\* graph.py 68-73: in_degree counts the dependencies inside the subset
InDegree(E, cell_ids) ==
    [cid \in cell_ids |-> Cardinality({d \in cell_ids : <<d, cid>> \in E})]

\* graph.py 78-87: the loop of Kahn's algorithm; the dependents of current are
\* a set, so those that become free together join the queue in any order
RECURSIVE Kahn(_, _, _, _, _)
Kahn(E, cell_ids, queue, result, in_degree) ==
    IF queue = <<>> THEN {result}
    ELSE LET current == Head(queue)
             deps == {d \in cell_ids : <<current, d>> \in E}
             lowered == [cid \in cell_ids |->
                            IF cid \in deps THEN in_degree[cid] - 1 ELSE in_degree[cid]]
             freed == {d \in deps : lowered[d] = 0}
         IN  UNION {Kahn(E, cell_ids, Tail(queue) \o o, Append(result, current), lowered)
                      : o \in Orders(freed)}

\* graph.py 62-87: the lists that topological_sort can build for cell_ids
KahnResults(E, cell_ids) ==
    LET in_degree == InDegree(E, cell_ids)
    IN  UNION {Kahn(E, cell_ids, queue, <<>>, in_degree)
                 : queue \in Orders({cid \in cell_ids : in_degree[cid] = 0})}

\* graph.py 89-90: raise ValueError
KahnRaises(E, cell_ids) ==
    \E result \in KahnResults(E, cell_ids) : Len(result) # Cardinality(cell_ids)

\* scheduler.py 162-163: _get_cell finds the cell in notebook.cells
InNotebook(cell_id) == cell_id \in DOMAIN cell_status

HasFailedDependencyNever(E, status, cell_id) == FALSE

\* scheduler.py 86-93: a direct dependency has status ERROR
HasFailedDependency(E, status, cell_id) ==
    \E dep_id \in DOMAIN status : <<dep_id, cell_id>> \in E /\ status[dep_id] = "error"

NoCalls == [c \in SchedIds |-> 0]

\* A drain task whose coroutine has returned
DoneTask ==
    [pc |-> "done", pending_cells |-> {}, calls |-> NoCalls, sorted_cells |-> <<>>,
     pos |-> 1, ran |-> <<>>, blocked |-> {}, failed |-> {}]

\* asyncio.create_task(self._drain_queue(...)): a drain task at the top of its loop
NewTask == [DoneTask EXCEPT !.pc = "top"]

TaskActiveNever(ts) == FALSE

\* scheduler.py 36: notebook_id in current_tasks and not current_tasks[notebook_id].done()
TaskActive(ts) == Len(ts) > 0 /\ ts[Len(ts)].pc # "done"

\* scheduler.py 25-42: enqueue_run; nothing awaits inside the lock, so the
\* body runs without interruption
EnqueueRun(cell_id) ==
    /\ n_enqueue < MaxEnqueue
    /\ n_enqueue' = n_enqueue + 1
    /\ pending_runs' = pending_runs \cup {cell_id}
    /\ enq_calls' = [enq_calls EXCEPT ![cell_id] = @ + 1]
    /\ IF TaskActive(tasks)
       THEN tasks' = tasks
       ELSE /\ Len(tasks) < MaxTasks
            /\ tasks' = Append(tasks, NewTask)
    /\ UNCHANGED <<nb_edges, cell_status>>

\* scheduler.py 49-78: the top of the drain loop: leave when nothing is
\* pending, else take the snapshot, close it over the dependents and sort; a
\* cycle marks every cell of the pass ERROR and goes back to the top
DrainTake(t) ==
    /\ t \in DOMAIN tasks
    /\ tasks[t].pc = "top"
    /\ IF pending_runs = {}
       THEN /\ tasks' = [tasks EXCEPT ![t] = DoneTask]
            /\ UNCHANGED <<cell_status, pending_runs, enq_calls>>
       ELSE LET pending_cells == pending_runs
                all_to_run == AllToRun(nb_edges, pending_cells)
                pass == [DoneTask EXCEPT !.pending_cells = pending_cells, !.calls = enq_calls]
            IN  /\ pending_runs' = {}
                /\ enq_calls' = NoCalls
                /\ IF KahnRaises(nb_edges, all_to_run)
                   THEN /\ cell_status' = [c \in DOMAIN cell_status |->
                                             IF c \in all_to_run THEN "error" ELSE cell_status[c]]
                        /\ tasks' = [tasks EXCEPT ![t] = [pass EXCEPT !.pc = "top"]]
                   ELSE /\ \E sorted_cells \in KahnResults(nb_edges, all_to_run) :
                             tasks' = [tasks EXCEPT ![t] =
                                         [pass EXCEPT !.pc = "loop", !.sorted_cells = sorted_cells]]
                        /\ UNCHANGED cell_status
    /\ UNCHANGED <<nb_edges, n_enqueue>>

AfterPassReturn == "done"

\* scheduler.py 49: while True; after the for loop the task is at the top again
AfterPass == "top"

\* scheduler.py 81-102, 110-120: one turn of the for loop up to its first
\* await: skip a cell that is not in the notebook, mark BLOCKED a cell with a
\* failed dependency, else mark the cell RUNNING and yield
DrainDispatch(t) ==
    /\ t \in DOMAIN tasks
    /\ tasks[t].pc = "loop"
    /\ LET task == tasks[t]
       IN  IF task.pos > Len(task.sorted_cells)
           THEN /\ tasks' = [tasks EXCEPT ![t].pc = AfterPass]
                /\ UNCHANGED cell_status
           ELSE LET cell_id == task.sorted_cells[task.pos]
                IN  IF ~InNotebook(cell_id)
                    THEN /\ tasks' = [tasks EXCEPT ![t].pos = @ + 1]
                         /\ UNCHANGED cell_status
                    ELSE IF HasFailedDependency(nb_edges, cell_status, cell_id)
                    THEN /\ cell_status' = [cell_status EXCEPT ![cell_id] = "blocked"]
                         /\ tasks' = [tasks EXCEPT ![t].pos = @ + 1,
                                                   ![t].blocked = @ \cup {cell_id}]
                    ELSE /\ cell_status' = [cell_status EXCEPT ![cell_id] = "running"]
                         /\ tasks' = [tasks EXCEPT ![t].pc = "running",
                                                   ![t].ran = Append(@, cell_id)]
    /\ UNCHANGED <<nb_edges, pending_runs, enq_calls, n_enqueue>>

AdvanceSameCell(task, status) ==
    [task EXCEPT !.pc = "loop",
                 !.failed = IF status = "error" THEN @ \cup {task.sorted_cells[task.pos]} ELSE @]

\* scheduler.py 81, 102: _execute_cell returns and the for loop moves on to
\* the next cell of sorted_cells
Advance(task, status) ==
    [task EXCEPT !.pc = "loop",
                 !.pos = @ + 1,
                 !.failed = IF status = "error" THEN @ \cup {task.sorted_cells[task.pos]} ELSE @]

\* scheduler.py 122-160: the executor returns and the cell takes its status
DrainFinish(t, status) ==
    /\ t \in DOMAIN tasks
    /\ tasks[t].pc = "running"
    /\ LET cell_id == tasks[t].sorted_cells[tasks[t].pos]
       IN  /\ cell_status' = [cell_status EXCEPT ![cell_id] = status]
           /\ tasks' = [tasks EXCEPT ![t] = Advance(@, status)]
    /\ UNCHANGED <<nb_edges, pending_runs, enq_calls, n_enqueue>>

\* One step of drain task t, from one await to the next
DrainStep(t) ==
    /\ \/ DrainTake(t)
       \/ DrainDispatch(t)
       \/ \E status \in {"success", "error"} : DrainFinish(t, status)
    /\ UNCHANGED <<kernelVars, coordVars, opsVars, netVars>>

\* models.py 78-85, scheduler.py 15-18: a notebook of idle cells with one of
\* the graphs, and a scheduler that has run nothing yet
InitSched ==
    /\ InitKernel
    /\ InitNoNotebook
    /\ nb_edges \in SchedGraphs
    /\ cell_status = [c \in Cells |-> "idle"]
    /\ pending_runs = {}
    /\ tasks = <<>>
    /\ enq_calls = NoCalls
    /\ n_enqueue = 0
    /\ InitNoOps
    /\ InitNoNet

NextSched ==
    \/ \E c \in SchedIds : EnqueueRun(c) /\ UNCHANGED <<kernelVars, coordVars, opsVars, netVars>>
    \/ \E t \in 1..MaxTasks : DrainTake(t) /\ UNCHANGED <<kernelVars, coordVars, opsVars, netVars>>
    \/ \E t \in 1..MaxTasks : DrainDispatch(t) /\ UNCHANGED <<kernelVars, coordVars, opsVars, netVars>>
    \/ \E t \in 1..MaxTasks : \E status \in {"success", "error"} :
         DrainFinish(t, status) /\ UNCHANGED <<kernelVars, coordVars, opsVars, netVars>>

SpecSched == InitSched /\ [][NextSched]_vars

\* The event loop runs every drain task that is ready, and the executor returns
SpecSchedFair == SpecSched /\ \A t \in 1..MaxTasks : WF_vars(DrainStep(t))

\* ------------------------------------------- tool_run_cell over the scheduler
ToolCalls == 1..NumToolCalls

\* The cells whose status the next step of drain task t assigns
StatusWritten(t) ==
    IF t \notin DOMAIN tasks THEN {}
    ELSE LET task == tasks[t]
         IN  IF task.pc = "top"
             THEN IF pending_runs # {} /\ KahnRaises(nb_edges, AllToRun(nb_edges, pending_runs))
                  THEN AllToRun(nb_edges, pending_runs) \cap DOMAIN cell_status
                  ELSE {}
             ELSE IF task.pc = "loop"
             THEN IF task.pos <= Len(task.sorted_cells) /\ InNotebook(task.sorted_cells[task.pos])
                  THEN {task.sorted_cells[task.pos]}
                  ELSE {}
             ELSE IF task.pc = "running" THEN {task.sorted_cells[task.pos]}
             ELSE {}

\* llm_tools.py 250-282: one turn of the polling loop: the cell is looked up
\* and its status read; SUCCESS, ERROR and BLOCKED return, anything else
\* sleeps
PollOnce(tc, status) ==
    IF ~InNotebook(tc.cell_id)
    THEN [tc EXCEPT !.pc = "returned", !.result = "not_found"]
    ELSE IF status[tc.cell_id] \in {"success", "error", "blocked"}
    THEN [tc EXCEPT !.pc = "returned", !.result = status[tc.cell_id]]
    ELSE [tc EXCEPT !.pc = "sleeping"]

\* llm_tools.py 232-282: tool_run_cell awaits enqueue_run, which returns
\* without suspending since the lock is never held across an await, and
\* goes straight into the first turn of its polling loop
ToolRunCell(k, cell_id) ==
    /\ tool_calls[k].pc = "none"
    /\ \A j \in ToolCalls : j < k => tool_calls[j].pc # "none"
    /\ EnqueueRun(cell_id)
    /\ tool_calls' = [tool_calls EXCEPT
                        ![k] = PollOnce([NoToolCall EXCEPT !.cell_id = cell_id], cell_status)]

\* llm_tools.py 249-282: asyncio.sleep(0.2) returns and the loop turns again
ToolPoll(k) ==
    /\ tool_calls[k].pc = "sleeping"
    /\ tool_calls' = [tool_calls EXCEPT ![k] = PollOnce(@, cell_status)]
    /\ UNCHANGED schedVars

\* llm_tools.py 249, 284-289: CELL_EXECUTION_TIMEOUT has passed
ToolTimeout(k) ==
    /\ tool_calls[k].pc = "sleeping"
    /\ tool_calls' = [tool_calls EXCEPT ![k].pc = "returned", ![k].result = "timeout"]
    /\ UNCHANGED schedVars

\* A step of drain task t seen by the waiting calls of tool_run_cell: fresh
\* records that the status of the call's cell was assigned after the call
\* enqueued its run
Observe(t) ==
    tool_calls' = [k \in ToolCalls |->
                     IF tool_calls[k].pc = "sleeping" /\ tool_calls[k].cell_id \in StatusWritten(t)
                     THEN [tool_calls[k] EXCEPT !.fresh = TRUE]
                     ELSE tool_calls[k]]

NextTool ==
    \/ \E k \in ToolCalls : \E c \in SchedIds :
         ToolRunCell(k, c) /\ UNCHANGED <<kernelVars, coordVars, opsVars, hubVars, bcastVars, fileVars>>
    \/ \E k \in ToolCalls :
         ToolPoll(k) /\ UNCHANGED <<kernelVars, coordVars, opsVars, hubVars, bcastVars, fileVars>>
    \/ \E k \in ToolCalls :
         ToolTimeout(k) /\ UNCHANGED <<kernelVars, coordVars, opsVars, hubVars, bcastVars, fileVars>>
    \/ \E t \in 1..MaxTasks :
         DrainTake(t) /\ Observe(t) /\ UNCHANGED <<kernelVars, coordVars, opsVars, hubVars, bcastVars, fileVars>>
    \/ \E t \in 1..MaxTasks :
         DrainDispatch(t) /\ Observe(t) /\ UNCHANGED <<kernelVars, coordVars, opsVars, hubVars, bcastVars, fileVars>>
    \/ \E t \in 1..MaxTasks : \E status \in {"success", "error"} :
         DrainFinish(t, status) /\ Observe(t) /\ UNCHANGED <<kernelVars, coordVars, opsVars, hubVars, bcastVars, fileVars>>

SpecTool == InitSched /\ [][NextTool]_vars

\* ------------------------------------------- the notebook file
\* A line of the file: the "# Notebook: <name>" line, a cell separator
\* "# %% <type> [<id>]", or a line of code
MetaLine(name) == [kind |-> "meta", text |-> name, id |-> 0]
SepLine(cell_type, cell_id) == [kind |-> "sep", text |-> cell_type, id |-> cell_id]
TextLine(text) == [kind |-> "text", text |-> text, id |-> 0]

Blank == TextLine("")

\* The lines a client may type in a cell: a statement, an empty line, a
\* comment, and a line "# %% python", which CELL_SEPARATOR_PATTERN matches
\* with no id
CodeLines == {TextLine("stmt"), Blank, TextLine("# comment"), SepLine("python", 0)}

\* A code string is the sequence of its lines, cell.code.split("\n"): the
\* empty string is one empty line
FileCodes == UNION {[1..n -> CodeLines] : n \in 1..MaxCodeLines}

\* The codes sent to a notebook that several parties work on
StoreCodes == {<<TextLine("stmt")>>, <<TextLine("stmt"), TextLine("stmt")>>}

\* The names that rename_notebook may receive
FileNames == {"nb", ""}

\* file_storage.py 27: lines[i].startswith("#")
StartsWithHash(line) == line.kind \in {"meta", "sep"} \/ line = TextLine("# comment")

\* file_storage.py 93 and 20-21: "\n".join(lines) is written and read back
\* through splitlines(), which gives no last empty line for the final "\n"
SplitJoined(lines) ==
    IF lines # <<>> /\ lines[Len(lines)] = Blank
    THEN SubSeq(lines, 1, Len(lines) - 1)
    ELSE lines

RECURSIVE CellBlocks(_)
\* file_storage.py 88-91: separator, code and an empty line for every cell
CellBlocks(cells) ==
    IF cells = <<>> THEN <<>>
    ELSE <<SepLine(Head(cells).type, Head(cells).id)>> \o Head(cells).code \o <<Blank>>
            \o CellBlocks(Tail(cells))

\* file_storage.py 72-93: serialize_notebook, as the lines of the file
SerializeNotebook(notebook) ==
    SplitJoined((IF notebook.name # "" THEN <<MetaLine(notebook.name), Blank>> ELSE <<>>)
                    \o CellBlocks(notebook.cells))

\* file_storage.py 26-32: the index at which the metadata loop stops
MetaEnd(lines) ==
    CHOOSE i \in 0..Len(lines) :
        /\ \A j \in 1..i : StartsWithHash(lines[j])
        /\ i = Len(lines) \/ ~StartsWithHash(lines[i + 1])

\* file_storage.py 28-29, 66: the last "# Notebook:" line before the index,
\* else the notebook id
ParsedName(lines, i) ==
    LET metas == {j \in 1..i : lines[j].kind = "meta"}
    IN  IF metas = {} THEN "notebook-id"
        ELSE lines[CHOOSE j \in metas : \A m \in metas : m <= j].text

\* current_cell is None
NoCell == [id |-> 0, type |-> "none", code |-> <<>>]

\* file_storage.py 56-58: a newline is put before the line unless the code
\* is still empty
AddLine(code, line) == IF code = <<Blank>> THEN <<line>> ELSE Append(code, line)

RECURSIVE ParseCells(_, _, _)
\* file_storage.py 38-62: the loop over the lines after the metadata; a
\* separator without id gives the cell a new uuid, written 0
ParseCells(lines, cells, current_cell) ==
    LET saved == IF current_cell = NoCell THEN cells ELSE Append(cells, current_cell)
    IN  IF lines = <<>> THEN saved
        ELSE LET line == Head(lines)
             IN  IF line.kind = "sep"
                 THEN ParseCells(Tail(lines), saved,
                                 [id |-> line.id, type |-> line.text, code |-> <<Blank>>])
                 ELSE IF current_cell # NoCell
                 THEN ParseCells(Tail(lines), cells,
                                 [current_cell EXCEPT !.code = AddLine(@, line)])
                 ELSE ParseCells(Tail(lines), cells, current_cell)

\* file_storage.py 13-69: parse_notebook, from the lines of the file
ParseNotebook(lines) ==
    LET i == MetaEnd(lines)
    IN  [name |-> ParsedName(lines, i),
         cells |-> ParseCells(SubSeq(lines, i + 1, Len(lines)), <<>>, NoCell)]

RECURSIVE RStrip(_)
\* str.rstrip() of a code: the empty lines at its end go
RStrip(code) ==
    IF code # <<>> /\ code[Len(code)] = Blank THEN RStrip(SubSeq(code, 1, Len(code) - 1)) ELSE code

\* file_storage.py 93: a command writes the notebook it holds
Save(notebook, by, cell_id) ==
    /\ n_file_ops' = n_file_ops + 1
    /\ nb_file' = SerializeNotebook(notebook)
    /\ last_saved' = notebook
    /\ last_store_op' = [by |-> by, cell_id |-> cell_id]

\* api/cells.py 13-47: POST cells; an after_cell_id that is not found is a 404
RestCreateCell(cell_type, after_cell_id) ==
    /\ n_file_ops < MaxFileOps
    /\ file_next_id \in Cells
    /\ LET notebook == ParseNotebook(nb_file)
           new_cell == [id |-> file_next_id, type |-> cell_type, code |-> <<Blank>>]
           found == CellIndex(notebook.cells, after_cell_id)
       IN  /\ after_cell_id # 0 => found # 0
           /\ Save([notebook EXCEPT !.cells = IF after_cell_id # 0
                                              THEN InsertAt(notebook.cells, found, new_cell)
                                              ELSE Append(notebook.cells, new_cell)],
                   "rest", file_next_id)
    /\ file_next_id' = file_next_id + 1
    /\ UNCHANGED coord_nb

\* api/cells.py 49-63: PUT cell; a cell that is not found is a 404
RestUpdateCell(cell_id, code) ==
    /\ n_file_ops < MaxFileOps
    /\ LET notebook == ParseNotebook(nb_file)
           i == CellIndex(notebook.cells, cell_id)
       IN  /\ i # 0
           /\ Save([notebook EXCEPT !.cells[i].code = code], "rest", cell_id)
    /\ UNCHANGED <<coord_nb, file_next_id>>

\* api/cells.py 65-79: DELETE cell
RestDeleteCell(cell_id) ==
    /\ n_file_ops < MaxFileOps
    /\ LET notebook == ParseNotebook(nb_file)
           i == CellIndex(notebook.cells, cell_id)
       IN  /\ i # 0
           /\ Save([notebook EXCEPT !.cells = PopAt(@, i)], "rest", cell_id)
    /\ UNCHANGED <<coord_nb, file_next_id>>

\* api/notebooks.py 36-45: PUT name
RenameNotebook(name) ==
    /\ n_file_ops < MaxFileOps
    /\ Save([ParseNotebook(nb_file) EXCEPT !.name = name], "rename", 0)
    /\ UNCHANGED <<coord_nb, file_next_id>>

\* api/notebooks.py 14-20: create_notebook has written a notebook with a
\* name and no cells
NewNotebook == [name |-> "nb", cells |-> <<>>]

InitFile ==
    /\ InitKernel /\ InitNoNotebook /\ InitNoScheduler /\ InitNoOps
    /\ InitNoHub /\ InitNoBroadcaster /\ InitNoTool
    /\ nb_file = SerializeNotebook(NewNotebook)
    /\ last_saved = NewNotebook
    /\ coord_nb = [k \in 1..NumStoreCoords |-> NoNotebook]
    /\ last_store_op = NoStoreOp
    /\ n_file_ops = 0
    /\ file_next_id = 1

NextFile ==
    \/ \E t \in {"python", "sql"} : \E after \in {0} \cup Cells :
         RestCreateCell(t, after)
            /\ UNCHANGED <<kernelVars, coordVars, schedVars, opsVars, hubVars, bcastVars, toolVars>>
    \/ \E c \in Cells : \E code \in FileCodes :
         RestUpdateCell(c, code)
            /\ UNCHANGED <<kernelVars, coordVars, schedVars, opsVars, hubVars, bcastVars, toolVars>>
    \/ \E c \in Cells :
         RestDeleteCell(c)
            /\ UNCHANGED <<kernelVars, coordVars, schedVars, opsVars, hubVars, bcastVars, toolVars>>
    \/ \E name \in FileNames :
         RenameNotebook(name)
            /\ UNCHANGED <<kernelVars, coordVars, schedVars, opsVars, hubVars, bcastVars, toolVars>>

SpecFile == InitFile /\ [][NextFile]_vars

\* ------------------------------------------- coordinators over one file
StoreCoords == 1..NumStoreCoords

Loaded(k) == coord_nb[k] # NoNotebook

\* coordinator.py 155-158: load_notebook parses the file into self.notebook
CoordLoadNotebook(k) ==
    /\ ~Loaded(k)
    /\ coord_nb' = [coord_nb EXCEPT ![k] = ParseNotebook(nb_file)]
    /\ UNCHANGED <<nb_file, last_saved, last_store_op, n_file_ops, file_next_id>>

\* coordinator.py 250-288: handle_create_cell inserts into self.notebook and
\* serializes it; an after_cell_id that is not found appends
CoordCreateCell(k, cell_type, after_cell_id) ==
    /\ n_file_ops < MaxFileOps
    /\ Loaded(k)
    /\ file_next_id \in Cells
    /\ LET new_cell == [id |-> file_next_id, type |-> cell_type, code |-> <<Blank>>]
           found == CellIndex(coord_nb[k].cells, after_cell_id)
       IN  coord_nb' = [coord_nb EXCEPT ![k].cells =
                           IF after_cell_id # 0 /\ found # 0
                           THEN InsertAt(@, found, new_cell)
                           ELSE Append(@, new_cell)]
    /\ Save(coord_nb'[k], "coord", file_next_id)
    /\ file_next_id' = file_next_id + 1

\* coordinator.py 183-195: handle_cell_update sets the code in self.notebook
\* and serializes it; it returns early when the cell is not found
CoordUpdateCell(k, cell_id, new_code) ==
    /\ n_file_ops < MaxFileOps
    /\ Loaded(k)
    /\ LET i == CellIndex(coord_nb[k].cells, cell_id)
       IN  /\ i # 0
           /\ coord_nb' = [coord_nb EXCEPT ![k].cells[i].code = new_code]
    /\ Save(coord_nb'[k], "coord", cell_id)
    /\ UNCHANGED file_next_id

\* coordinator.py 298-307: handle_delete_cell pops the cell from
\* self.notebook and serializes it
CoordDeleteCell(k, cell_id) ==
    /\ n_file_ops < MaxFileOps
    /\ Loaded(k)
    /\ LET i == CellIndex(coord_nb[k].cells, cell_id)
       IN  /\ i # 0
           /\ coord_nb' = [coord_nb EXCEPT ![k].cells = PopAt(@, i)]
    /\ Save(coord_nb'[k], "coord", cell_id)
    /\ UNCHANGED file_next_id

\* The notebook in the file when the first client connects: c1 and c2
StoredFile ==
    [name |-> "nb",
     cells |-> << [id |-> 1, type |-> "python", code |-> <<TextLine("stmt")>>],
                  [id |-> 2, type |-> "python", code |-> <<TextLine("stmt")>>] >>]

InitStore ==
    /\ InitKernel /\ InitNoNotebook /\ InitNoScheduler /\ InitNoOps
    /\ InitNoHub /\ InitNoBroadcaster /\ InitNoTool
    /\ nb_file = SerializeNotebook(StoredFile)
    /\ last_saved = StoredFile
    /\ coord_nb = [k \in StoreCoords |-> NoNotebook]
    /\ last_store_op = NoStoreOp
    /\ n_file_ops = 0
    /\ file_next_id = Len(StoredFile.cells) + 1

NextStore ==
    \/ \E k \in StoreCoords :
         CoordLoadNotebook(k)
            /\ UNCHANGED <<kernelVars, coordVars, schedVars, opsVars, hubVars, bcastVars, toolVars>>
    \/ \E k \in StoreCoords : \E t \in {"python", "sql"} : \E after \in {0} \cup Cells :
         CoordCreateCell(k, t, after)
            /\ UNCHANGED <<kernelVars, coordVars, schedVars, opsVars, hubVars, bcastVars, toolVars>>
    \/ \E k \in StoreCoords : \E c \in Cells : \E code \in StoreCodes :
         CoordUpdateCell(k, c, code)
            /\ UNCHANGED <<kernelVars, coordVars, schedVars, opsVars, hubVars, bcastVars, toolVars>>
    \/ \E k \in StoreCoords : \E c \in Cells :
         CoordDeleteCell(k, c)
            /\ UNCHANGED <<kernelVars, coordVars, schedVars, opsVars, hubVars, bcastVars, toolVars>>
    \/ \E t \in {"python", "sql"} : \E after \in {0} \cup Cells :
         RestCreateCell(t, after)
            /\ UNCHANGED <<kernelVars, coordVars, schedVars, opsVars, hubVars, bcastVars, toolVars>>
    \/ \E c \in Cells : \E code \in StoreCodes :
         RestUpdateCell(c, code)
            /\ UNCHANGED <<kernelVars, coordVars, schedVars, opsVars, hubVars, bcastVars, toolVars>>
    \/ \E c \in Cells :
         RestDeleteCell(c)
            /\ UNCHANGED <<kernelVars, coordVars, schedVars, opsVars, hubVars, bcastVars, toolVars>>

SpecStore == InitStore /\ [][NextStore]_vars

\* ------------------------------------------- the locked notebook operations
Callers == 1..NumCallers

\* graph.py 11-30: an edge from every cell that writes a variable to every
\* other cell that reads it
RebuildGraph(cells) ==
    {<<cells[i].id, cells[j].id>> : <<i, j>> \in
        {p \in (DOMAIN cells) \X (DOMAIN cells) :
            /\ cells[p[1]].id # cells[p[2]].id
            /\ cells[p[1]].code.writes \cap cells[p[2]].code.reads # {}}}

\* graph.py 32-60: the DFS from start_cell meets a cell that is on its path
DetectCycle(E, start_cell) ==
    \E n \in Reach(E, {start_cell}) : n \in Reach(E, Successors(E, {n}))

\* The codes that callers send: "x = 1", "y = x" and "x = y"
OpsCodes == {code \in PythonCodes : code.writes # {} /\ code.reads \cap code.writes = {}}

\* A caller that is not inside a call; code holds the argument until the
\* body has used it
NoCall ==
    [pc |-> "idle", cell_id |-> 0, code |-> EmptyCode, check |-> FALSE, expected |-> 0,
     fresh |-> FALSE, with |-> {}, outcome |-> "none",
     kind |-> "none", index |-> 0, before |-> <<>>, prev |-> <<>>]

\* The notebook as a call finds it when it has taken the lock
Snapshot == <<[cells |-> op_cells, edges |-> op_edges, revision |-> revision,
               mutations |-> n_returned + n_save_failed]>>

NextRevisionSame(r) == r

\* notebook.revision += 1
NextRevision(r) == r + 1

InFlight(k) == callers[k].pc \in {"waiting", "saving"}

\* A caller calls locked_update_cell(notebook, cell_id, code, expected_revision)
\* and reaches async with notebook._lock
CallUpdate(k, cell_id, code, check, expected) ==
    /\ n_ops < MaxOps
    /\ n_ops' = n_ops + 1
    /\ callers[k].pc \in {"idle", "done"}
    /\ callers' = [j \in Callers |->
                     IF j = k
                     THEN [NoCall EXCEPT !.pc = "waiting", !.kind = "update",
                                         !.cell_id = cell_id, !.code = code,
                                         !.check = check, !.expected = expected,
                                         !.fresh = (check /\ expected = revision),
                                         !.with = {i \in Callers \ {k} : InFlight(i)}]
                     ELSE [callers[j] EXCEPT !.with = @ \ {k}]]
    /\ UNCHANGED <<op_cells, op_edges, revision, lock_owner, op_next_id, n_returned, n_save_failed>>

\* notebook_operations.py 25-61: the body of locked_update_cell from the
\* acquisition of the lock up to await save_notebook; a raise leaves the
\* async with block and releases the lock
UpdateBody(k) ==
    /\ callers[k].pc = "waiting"
    /\ callers[k].kind = "update"
    /\ lock_owner = 0
    /\ LET call_k == callers[k]
           i == CellIndex(op_cells, call_k.cell_id)
       IN  IF call_k.check /\ revision # call_k.expected
           THEN /\ callers' = [callers EXCEPT ![k].pc = "done", ![k].outcome = "conflict",
                                              ![k].code = EmptyCode]
                /\ UNCHANGED <<op_cells, op_edges, revision, lock_owner>>
           ELSE IF i = 0
           THEN /\ callers' = [callers EXCEPT ![k].pc = "done", ![k].outcome = "not_found",
                                              ![k].code = EmptyCode]
                /\ UNCHANGED <<op_cells, op_edges, revision, lock_owner>>
           ELSE LET coded == [op_cells EXCEPT ![i].code = call_k.code, ![i].status = "idle"]
                    edges == RebuildGraph(coded)
                IN  /\ op_edges' = edges
                    /\ op_cells' = IF DetectCycle(edges, call_k.cell_id)
                                   THEN [coded EXCEPT ![i].status = "error"]
                                   ELSE coded
                    /\ revision' = NextRevision(revision)
                    /\ lock_owner' = k
                    /\ callers' = [callers EXCEPT ![k].pc = "saving", ![k].code = EmptyCode,
                                                  ![k].before = Snapshot]
    /\ UNCHANGED <<n_ops, op_next_id, n_returned, n_save_failed>>

\* A caller calls locked_create_cell(notebook, CellType.PYTHON, code, index)
CallCreate(k, code, index) ==
    /\ n_ops < MaxOps
    /\ n_ops' = n_ops + 1
    /\ callers[k].pc \in {"idle", "done"}
    /\ callers' = [j \in Callers |->
                     IF j = k
                     THEN [NoCall EXCEPT !.pc = "waiting", !.kind = "create",
                                         !.code = code, !.index = index,
                                         !.with = {i \in Callers \ {k} : InFlight(i)}]
                     ELSE [callers[j] EXCEPT !.with = @ \ {k}]]
    /\ UNCHANGED <<op_cells, op_edges, revision, lock_owner, op_next_id, n_returned, n_save_failed>>

\* notebook_operations.py 75-112: the body of locked_create_cell up to await
\* save_notebook; an index outside 0..len(cells), like None, appends
CreateBody(k) ==
    /\ callers[k].pc = "waiting"
    /\ callers[k].kind = "create"
    /\ lock_owner = 0
    /\ op_next_id \in Cells
    /\ LET call_k == callers[k]
           new_cell == [id |-> op_next_id, code |-> call_k.code, status |-> "idle"]
           cells == IF call_k.index <= Len(op_cells)
                    THEN InsertAt(op_cells, call_k.index, new_cell)
                    ELSE Append(op_cells, new_cell)
           edges == RebuildGraph(cells)
           i == CellIndex(cells, new_cell.id)
       IN  /\ op_edges' = edges
           /\ op_cells' = IF DetectCycle(edges, new_cell.id)
                          THEN [cells EXCEPT ![i].status = "error"]
                          ELSE cells
           /\ op_next_id' = op_next_id + 1
           /\ revision' = NextRevision(revision)
           /\ lock_owner' = k
           /\ callers' = [callers EXCEPT ![k].pc = "saving", ![k].code = EmptyCode,
                                         ![k].cell_id = new_cell.id, ![k].before = Snapshot]
    /\ UNCHANGED <<n_ops, n_returned, n_save_failed>>

GraphRemoveOutgoing(E, cell_id) == {e \in E : e[1] # cell_id}

\* models.py 59-71: Graph.remove_cell drops the edges that leave the cell and
\* the edges that enter it
GraphRemove(E, cell_id) == {e \in E : e[1] # cell_id /\ e[2] # cell_id}

\* A caller calls locked_delete_cell(notebook, cell_id); prev is the
\* notebook as it was before the caller's own locked_create_cell, when that
\* call returned this cell
CallDelete(k, cell_id) ==
    /\ n_ops < MaxOps
    /\ n_ops' = n_ops + 1
    /\ callers[k].pc \in {"idle", "done"}
    /\ callers' = [j \in Callers |->
                     IF j = k
                     THEN [NoCall EXCEPT !.pc = "waiting", !.kind = "delete",
                                         !.cell_id = cell_id,
                                         !.prev = IF /\ callers[k].kind = "create"
                                                     /\ callers[k].outcome = "ok"
                                                     /\ callers[k].cell_id = cell_id
                                                  THEN callers[k].before
                                                  ELSE <<>>,
                                         !.with = {i \in Callers \ {k} : InFlight(i)}]
                     ELSE [callers[j] EXCEPT !.with = @ \ {k}]]
    /\ UNCHANGED <<op_cells, op_edges, revision, lock_owner, op_next_id, n_returned, n_save_failed>>

\* notebook_operations.py 123-139: the body of locked_delete_cell up to await
\* save_notebook
DeleteBody(k) ==
    /\ callers[k].pc = "waiting"
    /\ callers[k].kind = "delete"
    /\ lock_owner = 0
    /\ LET cell_id == callers[k].cell_id
       IN  IF CellIndex(op_cells, cell_id) = 0
           THEN /\ callers' = [callers EXCEPT ![k].pc = "done", ![k].outcome = "not_found"]
                /\ UNCHANGED <<op_cells, op_edges, revision, lock_owner>>
           ELSE /\ op_cells' = PopAt(op_cells, CellIndex(op_cells, cell_id))
                /\ op_edges' = GraphRemove(op_edges, cell_id)
                /\ revision' = NextRevision(revision)
                /\ lock_owner' = k
                /\ callers' = [callers EXCEPT ![k].pc = "saving", ![k].before = Snapshot]
    /\ UNCHANGED <<n_ops, op_next_id, n_returned, n_save_failed>>

\* notebook_operations.py 63-65: save_notebook returns and the call returns
\* the cell, or save_notebook raises and the exception leaves the call; the
\* lock is released either way
SaveNotebook(k, saved) ==
    /\ callers[k].pc = "saving"
    /\ lock_owner = k
    /\ lock_owner' = 0
    /\ callers' = [callers EXCEPT ![k].pc = "done",
                                  ![k].outcome = IF saved THEN "ok" ELSE "save_failed"]
    /\ n_returned' = IF saved THEN n_returned + 1 ELSE n_returned
    /\ n_save_failed' = IF saved THEN n_save_failed ELSE n_save_failed + 1
    /\ UNCHANGED <<op_cells, op_edges, revision, n_ops, op_next_id>>

\* The notebook that the operations start from: c1 "x = 1", c2 "y = x"
OpsNotebook ==
    << [id |-> 1, code |-> [reads |-> {}, writes |-> {1}], status |-> "idle"],
       [id |-> 2, code |-> [reads |-> {1}, writes |-> {2}], status |-> "idle"] >>

InitOps ==
    /\ InitKernel
    /\ InitNoNotebook
    /\ InitNoScheduler
    /\ op_cells = OpsNotebook
    /\ op_edges = RebuildGraph(OpsNotebook)
    /\ revision = 0
    /\ lock_owner = 0
    /\ callers = [k \in Callers |-> NoCall]
    /\ n_ops = 0
    /\ op_next_id = Len(OpsNotebook) + 1
    /\ n_returned = 0
    /\ n_save_failed = 0
    /\ InitNoNet

NextOps ==
    \/ \E k \in Callers : \E cell_id \in CellIds(OpsNotebook) \cup {UnknownId} : \E code \in OpsCodes :
         \E check \in BOOLEAN : \E expected \in {r \in {revision - 1, revision} : r >= 0} :
           /\ check \/ expected = revision
           /\ CallUpdate(k, cell_id, code, check, expected)
           /\ UNCHANGED <<kernelVars, coordVars, schedVars, netVars>>
    \/ \E k \in Callers : UpdateBody(k) /\ UNCHANGED <<kernelVars, coordVars, schedVars, netVars>>
    \/ \E k \in Callers : \E code \in OpsCodes : \E index \in 0..NumCells :
         CallCreate(k, code, index) /\ UNCHANGED <<kernelVars, coordVars, schedVars, netVars>>
    \/ \E k \in Callers : CreateBody(k) /\ UNCHANGED <<kernelVars, coordVars, schedVars, netVars>>
    \/ \E k \in Callers : \E cell_id \in SchedIds :
         CallDelete(k, cell_id) /\ UNCHANGED <<kernelVars, coordVars, schedVars, netVars>>
    \/ \E k \in Callers : DeleteBody(k) /\ UNCHANGED <<kernelVars, coordVars, schedVars, netVars>>
    \/ \E k \in Callers : \E saved \in BOOLEAN :
         SaveNotebook(k, saved) /\ UNCHANGED <<kernelVars, coordVars, schedVars, netVars>>

SpecOps == InitOps /\ [][NextOps]_vars

(***************************************************************************)
(* app/websocket/handler.py and app/orchestration/coordinator.py: the      *)
(* ConnectionManager, the coordinator it makes for each connection, the    *)
(* coordinator's kernel and the task that reads the kernel's output queue. *)
(***************************************************************************)

HubCells == 1..NumHubCells

\* The sequence without the entries equal to x
Without(seq, x) == SelectSeq(seq, LAMBDA y : y # x)

\* coordinator.py 53, 145-153: a task that is in the middle of a broadcast
Broadcasting(k) == coordinators[k].task \in {"sending", "dying"}

\* handler.py 13-20: ConnectionManager.connect stores the socket under a
\* connection id that was not in use, and makes a coordinator whose
\* __init__ starts a kernel (coordinator.py 25-36); load_notebook is called
\* without await, so its body does not run here. Connection ids are fresh,
\* taken here in increasing order
Connect(c, notebook_id) ==
    /\ sockets[c].state = "none"
    /\ \A b \in Conns : b < c => sockets[b].state # "none"
    /\ active_connections' = Append(active_connections, c)
    /\ sockets' = [sockets EXCEPT ![c] = [notebook |-> notebook_id, state |-> "open",
                                           received |-> <<>>]]
    /\ coordinators' = [k \in Conns |->
                          IF k = c
                          THEN [NoCoordinator EXCEPT !.kernel = "alive", !.running = TRUE,
                                                    !.for_notebook = notebook_id,
                                                    !.registered = TRUE]
                          ELSE IF Broadcasting(k)
                               THEN [coordinators[k] EXCEPT !.todo = Append(@, c)]
                               ELSE coordinators[k]]
    /\ UNCHANGED n_emit

\* handler.py 22-26, 62-66: ConnectionManager.disconnect, called when the
\* client has gone; the coordinator object leaves the dict, its kernel and
\* its reader task are not stopped
Disconnect(c) ==
    /\ sockets[c].state = "closed"
    /\ coordinators[c].registered
    /\ active_connections' = Without(active_connections, c)
    /\ coordinators' = [k \in Conns |->
                          [coordinators[k] EXCEPT !.registered = (@ /\ k # c),
                                                  !.todo = Without(@, c)]]
    /\ UNCHANGED <<sockets, n_emit>>

\* The client of connection c goes away: later sends on its socket raise
ClientClose(c) ==
    /\ sockets[c].state = "open"
    /\ sockets' = [sockets EXCEPT ![c].state = "closed"]
    /\ UNCHANGED <<active_connections, coordinators, n_emit>>

\* coordinator.py 155-164: a caller awaits load_notebook on the coordinator
\* of connection c, which starts the task of _process_output_queue
LoadNotebook(c) ==
    /\ coordinators[c].kernel # "none"
    /\ coordinators[c].task = "none"
    /\ Cardinality({k \in Conns : coordinators[k].task # "none"}) < MaxLoaded
    /\ coordinators' = [coordinators EXCEPT ![c].notebook_id = coordinators[c].for_notebook,
                                            ![c].task = IF coordinators[c].running
                                                        THEN "top" ELSE "ended"]
    /\ UNCHANGED <<active_connections, sockets, n_emit>>

\* The kernel of coordinator c answers a request of load_notebook or of a
\* handler with a notification of a cell on its output queue
KernelEmit(c, cell_id) ==
    /\ coordinators[c].kernel = "alive"
    /\ coordinators[c].task # "none"
    /\ n_emit < MaxEmit
    /\ n_emit' = n_emit + 1
    /\ coordinators' = [coordinators EXCEPT
           ![c].emitted = @ + 1,
           ![c].output_queue = Append(@, [type |-> "notification", from |-> c,
                                          notebook |-> coordinators[c].for_notebook,
                                          cell |-> cell_id, n |-> coordinators[c].emitted + 1])]
    /\ UNCHANGED <<active_connections, sockets>>

\* The kernel process of a coordinator whose reader task was started dies
KernelDie(c) ==
    /\ coordinators[c].kernel = "alive"
    /\ coordinators[c].task # "none"
    /\ coordinators' = [coordinators EXCEPT ![c].kernel = "dead"]
    /\ UNCHANGED <<active_connections, sockets, n_emit>>

GetIndexLast(q) == Len(q)

\* coordinator.py 56-59: output_queue.get takes the oldest message
GetIndex(q) == 1

\* coordinator.py 53-67: the reader takes a message from the output queue
\* and calls broadcaster.broadcast, which starts to iterate over
\* active_connections.values() (handler.py 35)
ReaderGet(c) ==
    /\ coordinators[c].task = "top"
    /\ coordinators[c].running
    /\ coordinators[c].output_queue # <<>>
    /\ LET q == coordinators[c].output_queue
       IN  coordinators' = [coordinators EXCEPT
               ![c].task = "sending",
               ![c].msg = <<q[GetIndex(q)]>>,
               ![c].output_queue = PopAt(q, GetIndex(q)),
               ![c].todo = active_connections,
               ![c].size = Len(active_connections),
               ![c].after_error = IF coordinators[c].kernel_errors > 0 THEN @ + 1 ELSE @]
    /\ UNCHANGED <<active_connections, sockets, n_emit>>

KernelDeadNever(c) == FALSE

\* coordinator.py 70: not self.kernel.process.is_alive()
KernelDead(c) == coordinators[c].kernel = "dead"

\* coordinator.py 68-73, 145-153: the get times out on an empty queue and
\* the kernel is not alive: _handle_kernel_death clears _running and
\* broadcasts kernel_error
ReaderEmpty(c) ==
    /\ coordinators[c].task = "top"
    /\ coordinators[c].running
    /\ coordinators[c].output_queue = <<>>
    /\ KernelDead(c)
    /\ coordinators' = [coordinators EXCEPT
           ![c].task = "dying",
           ![c].running = FALSE,
           ![c].msg = <<[type |-> "kernel_error", from |-> c,
                         notebook |-> coordinators[c].for_notebook, cell |-> 0, n |-> 0]>>,
           ![c].todo = active_connections,
           ![c].size = Len(active_connections),
           ![c].kernel_errors = @ + 1]
    /\ UNCHANGED <<active_connections, sockets, n_emit>>

\* coordinator.py 75-79: an exception of the broadcast of a notification is
\* caught and the loop goes on; one of the broadcast of kernel_error is
\* raised inside the except clause and ends the task
AfterRaise(task) == IF task = "sending" THEN "top" ELSE "failed"

\* coordinator.py 53, 73: after the broadcast of a notification the loop
\* goes on; after the one of kernel_error it breaks
AfterBroadcast(task) == IF task = "sending" THEN "top" ELSE "ended"

\* handler.py 33-36: one step of ConnectionManager.broadcast. The dict
\* iterator raises RuntimeError when the dict has changed size; send_json
\* raises on a socket whose client has gone; neither is caught in broadcast
BroadcastStep(c) ==
    /\ Broadcasting(c)
    /\ LET co == coordinators[c]
       IN  IF Len(active_connections) # co.size
           THEN /\ coordinators' = [coordinators EXCEPT ![c].task = AfterRaise(co.task),
                                                        ![c].msg = <<>>, ![c].todo = <<>>,
                                                        ![c].size = 0]
                /\ UNCHANGED sockets
           ELSE IF co.todo = <<>>
           THEN /\ coordinators' = [coordinators EXCEPT ![c].task = AfterBroadcast(co.task),
                                                        ![c].msg = <<>>, ![c].size = 0]
                /\ UNCHANGED sockets
           ELSE IF sockets[Head(co.todo)].state = "open"
           THEN /\ sockets' = [sockets EXCEPT ![Head(co.todo)].received = Append(@, co.msg[1])]
                /\ coordinators' = [coordinators EXCEPT ![c].todo = Tail(@)]
           ELSE /\ coordinators' = [coordinators EXCEPT ![c].task = AfterRaise(co.task),
                                                        ![c].msg = <<>>, ![c].todo = <<>>,
                                                        ![c].size = 0]
                /\ UNCHANGED sockets
    /\ UNCHANGED <<active_connections, n_emit>>

InitHub == InitKernel /\ InitNoNotebook /\ InitNoScheduler /\ InitNoOps /\ InitNoHub /\ InitNoBroadcaster /\ InitNoOther

NextHub ==
    \/ \E c \in Conns : \E notebook_id \in Notebooks :
         Connect(c, notebook_id) /\ UNCHANGED <<kernelVars, coordVars, schedVars, opsVars, bcastVars, otherVars>>
    \/ \E c \in Conns : Disconnect(c) /\ UNCHANGED <<kernelVars, coordVars, schedVars, opsVars, bcastVars, otherVars>>
    \/ \E c \in Conns : ClientClose(c) /\ UNCHANGED <<kernelVars, coordVars, schedVars, opsVars, bcastVars, otherVars>>
    \/ \E c \in Conns : LoadNotebook(c) /\ UNCHANGED <<kernelVars, coordVars, schedVars, opsVars, bcastVars, otherVars>>
    \/ \E c \in Conns : \E cell_id \in HubCells :
         KernelEmit(c, cell_id) /\ UNCHANGED <<kernelVars, coordVars, schedVars, opsVars, bcastVars, otherVars>>
    \/ \E c \in Conns : KernelDie(c) /\ UNCHANGED <<kernelVars, coordVars, schedVars, opsVars, bcastVars, otherVars>>
    \/ \E c \in Conns : ReaderGet(c) /\ UNCHANGED <<kernelVars, coordVars, schedVars, opsVars, bcastVars, otherVars>>
    \/ \E c \in Conns : ReaderEmpty(c) /\ UNCHANGED <<kernelVars, coordVars, schedVars, opsVars, bcastVars, otherVars>>
    \/ \E c \in Conns : BroadcastStep(c) /\ UNCHANGED <<kernelVars, coordVars, schedVars, opsVars, bcastVars, otherVars>>

SpecHub == InitHub /\ [][NextHub]_vars

\* One step of the reader task of coordinator c, from one await to the next
ReaderStep(c) ==
    /\ \/ ReaderGet(c)
       \/ ReaderEmpty(c)
       \/ BroadcastStep(c)
    /\ UNCHANGED <<kernelVars, coordVars, schedVars, opsVars, bcastVars, otherVars>>

\* The event loop runs a reader task that can go on, and a send on a
\* socket ends by completing or by raising
SpecHubFair == SpecHub /\ \A c \in Conns : WF_vars(ReaderStep(c))

\* ------------------------------------------------------------ properties
\* Positions in out at which a cell is reported running / with a final status
RunningIdx(c) == {i \in DOMAIN out : out[i] = StatusNote(c, "running")}

FinalIdx(c) ==
    {i \in DOMAIN out : out[i].cell_id = c /\ out[i].channel = "status"
                        /\ out[i].data \in {"success", "error", "blocked"}}

RanCells == {c \in Cells : RunningIdx(c) # {}}

DepsOf(c) == ExtractDependencies(cell_registry[c].code, cell_registry[c].cell_type)

\* The request being handled, or handled last, is an Execute of a registered cell
InPass == request.type = "execute" /\ request.cell_id \in DOMAIN cell_registry

PassDone == InPass /\ Idle

\* The last step was an update_cell call that was accepted / that raised
Accepted == call.op = "update_cell" /\ ~call.raised

\* C1: once a cell has ended in error in an Execute pass, no cell that reads a
\* name the failed cell writes is started later in that pass, and at the end of
\* the pass each such cell of the pass is reported blocked.
C1_FailedWriterBlocksReaders ==
    InPass =>
        \A f \in RanCells : \A d \in (DOMAIN cell_registry) \ {f} :
            \A i \in DOMAIN out :
                (out[i] = StatusNote(f, "error") /\ DepsOf(d).reads \cap DepsOf(f).writes # {})
                => /\ \A j \in RunningIdx(d) : j < i
                   /\ (Idle /\ \E k \in DOMAIN cells_to_run : k > 0 /\ cells_to_run[k] = d
                             /\ RunningIdx(d) = {})
                      => \E j \in DOMAIN out : j > i /\ out[j] = StatusNote(d, "blocked")

\* C2: a finished Execute of a registered cell c has run exactly the stale
\* ancestors of c, c itself and all descendants of c, each once.
C2_RunsExactlyAffected ==
    PassDone =>
        /\ RanCells = Affected(graph, pass_has_run, request.cell_id)
        /\ \A c \in RanCells : Cardinality(RunningIdx(c)) = 1

\* C3: in an Execute of c, whenever c has started running, every stale
\* ancestor of c that is run in the pass has started running before it.
C3_StaleAncestorsFirst ==
    InPass =>
        \A a \in StaleAncestors(graph, pass_has_run, request.cell_id) \cap DOMAIN cell_registry :
            \A j \in RunningIdx(request.cell_id) :
                \E i \in RunningIdx(a) : i < j

\* C4: within one pass no cell starts running before every cell of the pass
\* that it depends on, directly or through other cells, has reported its final
\* status.
C4_TopologicalOrder ==
    InPass =>
        \A d \in RanCells : \A j \in RunningIdx(d) :
            \A p \in Ancestors(graph.edges, d) :
                (p \in DOMAIN cell_registry /\ \E k \in DOMAIN cells_to_run : cells_to_run[k] = p)
                => \E i \in FinalIdx(p) : i < j

\* C5: the graph is a directed acyclic graph after any sequence of update_cell
\* and remove_cell calls, raising ones included.
C5_GraphIsDAG == IsDAG(graph.edges)

C5_Witness == call.op = "update_cell" /\ call.raised /\ graph.edges # {} /\ n_graph_ops >= 3

\* C6: an update_cell call that raises CycleDetectedError leaves nodes, edges,
\* read and write sets and the designated-writer table as they were.
C6_RaiseLeavesGraphUnchanged ==
    [][(n_graph_ops' # n_graph_ops /\ call'.op = "update_cell" /\ call'.raised)
        => graph' = graph]_vars

\* C7: when an accepted update_cell of B writes a name n whose designated
\* writer was A, B is the designated writer of n afterwards and an edge A -> r
\* remains only if some other name written by A and read by r justifies it.
C7_OverwriteDropsEdges ==
    [][(n_graph_ops' # n_graph_ops /\ call'.op = "update_cell" /\ ~call'.raised)
        => \A n \in graph'.cell_writes[call'.cell_id] \cap DOMAIN graph.var_writers :
              LET A == graph.var_writers[n]
                  B == call'.cell_id
              IN  A # B =>
                    /\ graph'.var_writers[n] = B
                    /\ \A r \in graph'.nodes :
                         <<A, r>> \in graph'.edges
                         => \E m \in Names \ {n} :
                               /\ m \in Get(graph'.cell_writes, A, {})
                               /\ m \in Get(graph'.cell_reads, r, {})]_vars

\* C8 as stated: for every registered cell c and every name n read by c, if n
\* has a designated writer then the graph has the edge from that writer to c.
C8_WriterEdgePresent ==
    \A c \in DOMAIN graph.cell_reads : \A n \in graph.cell_reads[c] :
        n \in DOMAIN graph.var_writers => <<graph.var_writers[n], c>> \in graph.edges

\* C8 amended: for every registered cell c and every name n read by c, if n
\* has a designated writer other than c itself then the graph has the edge
\* from that writer to c.
C8_OtherWriterEdgePresent ==
    \A c \in DOMAIN graph.cell_reads : \A n \in graph.cell_reads[c] :
        (n \in DOMAIN graph.var_writers /\ graph.var_writers[n] # c)
        => <<graph.var_writers[n], c>> \in graph.edges

C8_Witness ==
    /\ call.op = "remove_cell"
    /\ \E c \in DOMAIN graph.cell_reads : \E n \in graph.cell_reads[c] :
         /\ n \in DOMAIN graph.var_writers
         /\ graph.var_writers[n] # c
         /\ <<graph.var_writers[n], c>> \in graph.edges

\* C9: a cell whose most recent execution ended in error has has_run false.
C9_ErrorMeansStale ==
    \A c \in DOMAIN last_status : last_status[c] = "error" => ~HasRunOf(has_run, c)

\* C10: right after an accepted RegisterCell of c, has_run is false for c and
\* for every descendant of c in the updated graph.
C10_RegisterInvalidates ==
    (request.type = "register_cell" /\ Accepted)
    => \A d \in {request.cell_id} \cup Descendants(graph.edges, request.cell_id) :
          d \in DOMAIN has_run /\ ~has_run[d]

C10_Witness ==
    /\ request.type = "register_cell" /\ Accepted
    /\ \E d \in Descendants(graph.edges, request.cell_id) :
         Get(last_status, d, "none") = "success" /\ ~HasRunOf(has_run, d)

\* C11: a RegisterCell runs no cell (no execution status changes, no has_run
\* set, the loop stays idle); accepted, it emits exactly a metadata
\* notification and then status idle for the cell; rejected for a cycle, it
\* emits exactly an error notification and then status blocked for the cell.
C11_RegisterOnlyNotifies ==
    [][(n_register' # n_register)
        => /\ last_status' = last_status
           /\ \A c \in Cells : HasRunOf(has_run', c) => HasRunOf(has_run, c)
           /\ Idle'
           /\ Len(out') = 2
           /\ \A i \in 1..2 : out'[i].cell_id = request'.cell_id
           /\ out'[1].channel = (IF call'.raised THEN "error" ELSE "metadata")
           /\ out'[2] = StatusNote(request'.cell_id, IF call'.raised THEN "blocked" ELSE "idle")]_vars

C11_Witness ==
    /\ request.type = "register_cell"
    /\ call.raised
    /\ \E c \in DOMAIN last_status : c # request.cell_id /\ HasRunOf(has_run, c)

\* C12 as stated: an Execute for a cell id without a registry entry emits
\* exactly one error notification CellNotRegistered for it and runs no cell.
C12_UnregisteredAlwaysError ==
    (request.type = "execute" /\ request.cell_id \notin DOMAIN cell_registry)
    => /\ out = <<Notification(request.cell_id, "error", "CellNotRegistered")>>
       /\ Idle

\* Cells that were in the notebook and have been deleted
DeletedCells == (1..(next_id - 1)) \ CellIds(nb_cells)

\* The kernel has finished the Execute request that it took last
ExecuteDone == request.type = "execute" /\ Idle

\* C13: when a cell that was created and never updated is run, the kernel
\* executes it and reports status success for it.
C13_CreatedCellRunsAsNoOp ==
    (/\ ExecuteDone
     /\ request.cell_id \notin CellIds(StoredNotebook)
     /\ request.cell_id \notin updated)
    => \E i \in DOMAIN out : out[i] = StatusNote(request.cell_id, "success")

\* C14: once a cell has been deleted and the kernel has handled every request
\* sent to it, the cell is neither a node of the kernel's graph nor in its
\* registry.
C14_DeletedCellGone ==
    \A c \in DeletedCells :
        (input_queue = <<>> /\ Idle)
        => /\ c \notin graph.nodes
           /\ c \notin DOMAIN cell_registry

\* Drain tasks whose coroutine has not returned
ActiveTasks == {t \in DOMAIN tasks : tasks[t].pc # "done"}

RunningCells == {c \in DOMAIN cell_status : cell_status[c] = "running"}

Undispatched(t, c) ==
    /\ tasks[t].pc \in {"loop", "running"}
    /\ c \in tasks[t].pending_cells
    /\ \E i \in DOMAIN tasks[t].sorted_cells :
          /\ tasks[t].sorted_cells[i] = c
          /\ \/ i > tasks[t].pos
             \/ i = tasks[t].pos /\ tasks[t].pc = "loop"

\* A run of c has been enqueued and no pass whose snapshot holds it has reached c
RunOwed(c) == c \in pending_runs \/ \E t \in DOMAIN tasks : Undispatched(t, c)

C17_AtMostOncePerPass ==
    \A t \in DOMAIN tasks :
        \A i, j \in DOMAIN tasks[t].ran : i # j => tasks[t].ran[i] # tasks[t].ran[j]

C17_Witness ==
    \E t \in DOMAIN tasks : \E c \in Cells :
        /\ tasks[t].calls[c] >= 2
        /\ \E i \in DOMAIN tasks[t].ran : tasks[t].ran[i] = c
        /\ tasks[t].pos > Len(tasks[t].sorted_cells)

\* Task t takes the step of its for loop that reaches cell c
Dispatching(t, c) ==
    /\ tasks[t].pc = "loop"
    /\ tasks[t].pos <= Len(tasks[t].sorted_cells)
    /\ tasks[t].sorted_cells[tasks[t].pos] = c
    /\ tasks'[t] # tasks[t]

C19_TransitiveDependentsBlocked ==
    \A t \in DOMAIN tasks : \A c \in tasks[t].failed :
        \A d \in Descendants(nb_edges, c) :
            /\ \A i \in DOMAIN tasks[t].ran : tasks[t].ran[i] = d => d \in tasks[t].failed
            /\ (\E i \in 1..(tasks[t].pos - 1) : tasks[t].sorted_cells[i] = d)
                  => d \in tasks[t].blocked \/ d \in tasks[t].failed

\* The current calls of callers j and k ran concurrently
Concurrent(j, k) == j \in callers[k].with \/ k \in callers[j].with

\* C20: when two concurrent locked_update_cell calls that name cells of the
\* notebook carry the same expected_revision, which was the notebook's
\* revision when each of them was made, no other call ran concurrently with
\* them, and both have ended, then one of them has succeeded and the other
\* has failed with a revision conflict, and the revision is one above the
\* expected one.
C20_ExactlyOneSucceeds ==
    \A j, k \in DOMAIN callers :
        (/\ j # k
         /\ Concurrent(j, k)
         /\ \A i \in DOMAIN callers \ {j, k} : ~Concurrent(i, j) /\ ~Concurrent(i, k)
         /\ callers[j].pc = "done" /\ callers[k].pc = "done"
         /\ callers[j].fresh /\ callers[k].fresh
         /\ callers[j].expected = callers[k].expected
         /\ callers[j].outcome # "not_found" /\ callers[k].outcome # "not_found")
        => /\ {callers[j].outcome, callers[k].outcome} = {"ok", "conflict"}
           /\ revision = callers[j].expected + 1


(***************************************************************************)
(* websocket.py: the WebSocketBroadcaster of the legacy server, whose      *)
(* broadcast is called by the scheduler and the routes while the websocket *)
(* endpoints connect and disconnect (routes.py 598, 650).                   *)
(***************************************************************************)

\* websocket.py 15-19: WebSocketBroadcaster.connect, called once for a
\* websocket when its endpoint has accepted it; the websockets are new
\* objects, taken here in increasing order
BroadcasterConnect(notebook_id, ws) ==
    /\ n_attach < MaxAttach
    /\ n_attach' = n_attach + 1
    /\ ws_state[ws] = "new"
    /\ \A w \in Sockets : w < ws => ws_state[w] # "new"
    /\ connections' = [connections EXCEPT ![notebook_id] = @ \cup {ws}]
    /\ ws_state' = [ws_state EXCEPT ![ws] = "open"]
    /\ UNCHANGED <<ws_received, broadcasts>>

\* websocket.py 21-24: WebSocketBroadcaster.disconnect
BroadcasterDisconnect(notebook_id, ws) ==
    /\ n_attach < MaxAttach
    /\ n_attach' = n_attach + 1
    /\ ws \in connections[notebook_id]
    /\ connections' = [connections EXCEPT ![notebook_id] = @ \ {ws}]
    /\ UNCHANGED <<ws_state, ws_received, broadcasts>>

\* The client of a websocket goes away: later sends to it raise
WsClose(ws) ==
    /\ ws_state[ws] = "open"
    /\ ws_state' = [ws_state EXCEPT ![ws] = "closed"]
    /\ UNCHANGED <<connections, ws_received, broadcasts, n_attach>>

\* The client of a websocket stops reading: a send to it never completes
WsHang(ws) ==
    /\ ws_state[ws] = "open"
    /\ ws_state' = [ws_state EXCEPT ![ws] = "hung"]
    /\ UNCHANGED <<connections, ws_received, broadcasts, n_attach>>

\* websocket.py 26-32: broadcast(notebook_id, message) is called and starts
\* to iterate over self.connections[notebook_id]; without connections of
\* the notebook it returns at once
BroadcastCall(notebook_id) ==
    /\ Len(broadcasts) < MaxBroadcasts
    /\ broadcasts' = Append(broadcasts,
           [notebook |-> notebook_id,
            pc |-> IF connections[notebook_id] = {} THEN "done" ELSE "iterating",
            start |-> connections[notebook_id], seen |-> {},
            size |-> Cardinality(connections[notebook_id]), dead |-> {}])
    /\ UNCHANGED <<connections, ws_state, ws_received, n_attach>>

\* The websockets that the iteration of broadcast b has still to reach
Remaining(b) ==
    (broadcasts[b].start \cap connections[broadcasts[b].notebook]) \ broadcasts[b].seen

\* The websockets added to the set since the iteration of broadcast b
\* began, which the iterator may reach or pass over
Late(b) ==
    (connections[broadcasts[b].notebook] \ broadcasts[b].start) \ broadcasts[b].seen

\* websocket.py 33-36: send_json raises for a websocket whose client has gone
SendRaises(ws) == ws_state[ws] = "closed"

\* websocket.py 32-40: one step of broadcast b at the for statement. The
\* set iterator raises RuntimeError, outside the try, when the set has
\* changed size; otherwise it yields a websocket, whose send completes,
\* raises into dead_connections or never ends; or it is exhausted and the
\* dead connections are discarded
BroadcastNext(b) ==
    /\ b \in DOMAIN broadcasts
    /\ broadcasts[b].pc = "iterating"
    /\ LET br == broadcasts[b]
       IN  IF Cardinality(connections[br.notebook]) # br.size
           THEN /\ broadcasts' = [broadcasts EXCEPT ![b].pc = "raised"]
                /\ UNCHANGED <<connections, ws_received>>
           ELSE \/ \E ws \in Remaining(b) \cup Late(b) :
                     IF ws_state[ws] = "hung"
                     THEN /\ broadcasts' = [broadcasts EXCEPT ![b].pc = "stuck"]
                          /\ UNCHANGED <<connections, ws_received>>
                     ELSE IF SendRaises(ws)
                     THEN /\ broadcasts' = [broadcasts EXCEPT ![b].seen = @ \cup {ws},
                                                              ![b].dead = @ \cup {ws}]
                          /\ UNCHANGED <<connections, ws_received>>
                     ELSE /\ broadcasts' = [broadcasts EXCEPT ![b].seen = @ \cup {ws}]
                          /\ ws_received' = [ws_received EXCEPT ![ws] = @ \cup {b}]
                          /\ UNCHANGED connections
                \/ /\ Remaining(b) = {}
                   /\ broadcasts' = [broadcasts EXCEPT ![b].pc = "done"]
                   /\ connections' = [connections EXCEPT ![br.notebook] = @ \ br.dead]
                   /\ UNCHANGED ws_received
    /\ UNCHANGED <<ws_state, n_attach>>

\* One step of the task that runs broadcast b, from one await to the next
BroadcastStepOf(b) ==
    BroadcastNext(b) /\ UNCHANGED <<kernelVars, coordVars, schedVars, opsVars, hubVars, otherVars>>

InitBcast == InitKernel /\ InitNoNotebook /\ InitNoScheduler /\ InitNoOps /\ InitNoHub /\ InitNoBroadcaster /\ InitNoOther

NextBcast ==
    \/ \E notebook_id \in Notebooks : \E ws \in Sockets :
         BroadcasterConnect(notebook_id, ws) /\ UNCHANGED <<kernelVars, coordVars, schedVars, opsVars, hubVars, otherVars>>
    \/ \E notebook_id \in Notebooks : \E ws \in Sockets :
         BroadcasterDisconnect(notebook_id, ws) /\ UNCHANGED <<kernelVars, coordVars, schedVars, opsVars, hubVars, otherVars>>
    \/ \E ws \in Sockets : WsClose(ws) /\ UNCHANGED <<kernelVars, coordVars, schedVars, opsVars, hubVars, otherVars>>
    \/ \E ws \in Sockets : WsHang(ws) /\ UNCHANGED <<kernelVars, coordVars, schedVars, opsVars, hubVars, otherVars>>
    \/ \E notebook_id \in Notebooks :
         BroadcastCall(notebook_id) /\ UNCHANGED <<kernelVars, coordVars, schedVars, opsVars, hubVars, otherVars>>
    \/ \E b \in 1..MaxBroadcasts :
         BroadcastNext(b) /\ UNCHANGED <<kernelVars, coordVars, schedVars, opsVars, hubVars, otherVars>>

SpecBcast == InitBcast /\ [][NextBcast]_vars

\* The event loop runs every broadcast that can go on
SpecBcastFair == SpecBcast /\ \A b \in 1..MaxBroadcasts : WF_vars(BroadcastStepOf(b))

\* Caller k returns successfully from its locked operation in this step
ReturnsOk(k) == callers[k].pc = "saving" /\ callers'[k].pc = "done" /\ callers'[k].outcome = "ok"

\* C21: a locked_update_cell, locked_create_cell or locked_delete_cell that
\* returns successfully leaves the revision exactly one above the revision
\* it found when it took the lock, and whenever no call holds the lock and
\* every mutation so far has returned successfully, the revision is the
\* number of those mutations, however they were interleaved.
C21_RevisionCountsMutations ==
    /\ [](lock_owner = 0 /\ n_save_failed = 0 => revision = n_returned)
    /\ [][\A k \in DOMAIN callers :
             ReturnsOk(k) => revision' = callers[k].before[1].revision + 1]_vars

C21_Witness ==
    \E j, k \in DOMAIN callers :
        /\ j # k /\ Concurrent(j, k)
        /\ callers[j].outcome = "ok" /\ callers[k].outcome = "ok"
        /\ callers[j].kind # callers[k].kind
        /\ revision = 2

\* save_notebook raises out of caller k's locked operation in this step
SaveFails(k) ==
    callers[k].pc = "saving" /\ callers'[k].pc = "done" /\ callers'[k].outcome = "save_failed"

\* C22: when save_notebook fails inside a locked operation, the operation
\* ends with the revision, the cell list with its code and the graph as
\* they were when the operation took the lock.
C22_SaveFailureAborts ==
    [][\A k \in DOMAIN callers :
          SaveFails(k) => /\ revision' = callers[k].before[1].revision
                          /\ op_cells' = callers[k].before[1].cells
                          /\ op_edges' = callers[k].before[1].edges]_vars

\* Caller k has returned from the locked_delete_cell of the cell that its own
\* locked_create_cell had returned, and no other call has mutated the
\* notebook since that locked_create_cell took the lock
CreateThenDelete(k) ==
    /\ callers[k].kind = "delete"
    /\ callers[k].pc = "done"
    /\ callers[k].outcome = "ok"
    /\ callers[k].prev # <<>>
    /\ lock_owner = 0
    /\ n_returned + n_save_failed = callers[k].prev[1].mutations + 2

\* C23: after locked_create_cell followed by locked_delete_cell of the
\* created cell, the notebook has the cell sequence it had before the
\* creation, a revision two above the one it had, and no edge of the graph
\* starts or ends at the created cell.
C23_CreateDeleteRestores ==
    \A k \in DOMAIN callers :
        CreateThenDelete(k)
        => /\ op_cells = callers[k].prev[1].cells
           /\ revision = callers[k].prev[1].revision + 2
           /\ \A e \in op_edges : e[1] # callers[k].cell_id /\ e[2] # callers[k].cell_id

C23_Witness ==
    \E k \in DOMAIN callers :
        /\ CreateThenDelete(k)
        /\ \E e \in callers[k].before[1].edges : e[2] = callers[k].cell_id

\* C24: the dependency graph of the notebook never contains a cycle,
\* whatever locked_create_cell, locked_update_cell and locked_delete_cell
\* calls have run.
C24_OpsGraphAcyclic == IsDAG(op_edges)

\* The notifications of cell_id that came from the kernel of coordinator k,
\* in the order in which the socket of connection c received them
ReceivedFrom(c, k, cell_id) ==
    SelectSeq(sockets[c].received,
              LAMBDA m : m.type = "notification" /\ m.from = k /\ m.cell = cell_id)

\* C25: on every socket, the notifications of one cell from one kernel
\* arrive in the order in which that kernel put them on its output queue,
\* none of them twice.
C25_PerCellFifo ==
    \A c, k \in Conns : \A cell_id \in HubCells :
        LET r == ReceivedFrom(c, k, cell_id)
        IN  \A i, j \in DOMAIN r : i < j => r[i].n < r[j].n

C25_Witness ==
    \E c, k \in Conns : \E cell_id \in HubCells :
        /\ Len(ReceivedFrom(c, k, cell_id)) >= 2
        /\ \E m \in Conns \ {c} : Len(ReceivedFrom(m, k, cell_id)) = 1

\* The positions in what the socket of connection c received of the
\* kernel_error events of coordinator k
KernelErrorsAt(c, k) ==
    {i \in DOMAIN sockets[c].received :
        sockets[c].received[i].type = "kernel_error" /\ sockets[c].received[i].from = k}

C27_OnlyOwnNotebook ==
    \A c \in Conns : \A i \in DOMAIN sockets[c].received :
        sockets[c].received[i].notebook = sockets[c].notebook

\* The coordinators with a living kernel that were made for a notebook
KernelsOf(notebook_id) ==
    {k \in Conns : coordinators[k].kernel = "alive" /\ coordinators[k].for_notebook = notebook_id}

\* C28: for every notebook there is at most one coordinator with a living
\* kernel process, however many connections are attached to the notebook.
C28_OneKernelPerNotebook ==
    \A notebook_id \in Notebooks : Cardinality(KernelsOf(notebook_id)) <= 1

\* Broadcast b has ended, by returning or by raising
Ended(b) == broadcasts[b].pc \in {"done", "raised"}

\* The websockets that were observers of the notebook for the whole of
\* broadcast b and whose client is there
LiveObservers(b) ==
    {ws \in broadcasts[b].start \cap connections[broadcasts[b].notebook] : ws_state[ws] = "open"}

\* C29: when a broadcast in which a send failed has ended, the websockets
\* whose send failed are no longer in the notebook's set, and every other
\* websocket that was an observer of the notebook throughout, with its
\* client there, has received the message.
C29_FailedSendIsolated ==
    \A b \in DOMAIN broadcasts :
        (Ended(b) /\ broadcasts[b].dead # {})
        => /\ broadcasts[b].dead \cap connections[broadcasts[b].notebook] = {}
           /\ \A ws \in LiveObservers(b) : b \in ws_received[ws]

\* Broadcast b owes its message to websocket ws
Owed(b, ws) ==
    /\ b \in DOMAIN broadcasts
    /\ broadcasts[b].pc \in {"iterating", "stuck"}
    /\ ws \in LiveObservers(b)
    /\ b \notin ws_received[ws]

\* C30: a broadcast that does not end with an exception reaches every
\* websocket that stays an observer of the notebook with its client
\* there, even when the send to another websocket never completes.
C30_SlowObserverDoesNotBlock ==
    \A b \in 1..MaxBroadcasts : \A ws \in Sockets : Owed(b, ws) ~> ~Owed(b, ws)

\* The step handles a register_cell request that is accepted
RegisterAccepted ==
    /\ n_register' = n_register + 1
    /\ ~call'.raised

\* The cells whose has_run the accepted registration of this step clears
ClearedByRegister ==
    {request'.cell_id} \cup Descendants(graph'.edges, request'.cell_id)

\* C32: when an accepted registration clears has_run of a cell whose last
\* execution had ended in success or error, the registered cell or one of
\* its descendants, the request's notifications hold a status idle for
\* that cell.
C32_ClearedCellsGetIdle ==
    [][RegisterAccepted
       => \A c \in ClearedByRegister \cap DOMAIN last_status :
              \E i \in DOMAIN out' : out'[i] = StatusNote(c, "idle")]_vars

\* Neither cell depends on the other in the kernel's graph
Unordered(a, b) == ~HasPath(graph.edges, a, b) /\ ~HasPath(graph.edges, b, a)

\* C33: when the kernel computes the cells of an execution pass, two of
\* them that no dependency orders are listed in the order of their
\* positions in the notebook's cell sequence.
C33_TiesByPosition ==
    [][n_execute' = n_execute + 1
       => \A i, j \in DOMAIN cells_to_run' :
              (/\ i < j
               /\ Unordered(cells_to_run'[i], cells_to_run'[j])
               /\ CellIndex(nb_cells, cells_to_run'[i]) # 0
               /\ CellIndex(nb_cells, cells_to_run'[j]) # 0)
              => CellIndex(nb_cells, cells_to_run'[i]) < CellIndex(nb_cells, cells_to_run'[j])]_vars

\* C34: get_execution_order(c) returns a list without repetitions of
\* exactly c and its descendants, c is its first element, and every
\* element stands after all its predecessors that are in the list.
C34_ExecutionOrderTopological ==
    call.op = "get_execution_order"
    => LET o == call.order
           c == call.cell_id
       IN  /\ {o[i] : i \in DOMAIN o} = {c} \cup Descendants(graph.edges, c)
           /\ Len(o) = Cardinality({c} \cup Descendants(graph.edges, c))
           /\ o[1] = c
           /\ \A i, j \in DOMAIN o : <<o[i], o[j]>> \in graph.edges => i < j

C34_Witness ==
    /\ call.op = "get_execution_order"
    /\ Len(call.order) = 3
    /\ <<call.order[2], call.order[3]>> \in graph.edges

\* The edges of the graph in which the edges of cell_id are replaced by the
\* ones that update_cell(cell_id, reads, writes) computes
ReplacedEdges(G, cell_id, reads, writes) ==
    {e \in G.edges : e[1] # cell_id /\ e[2] # cell_id}
        \cup NewParentEdges(G, cell_id, reads) \cup NewChildEdges(G, cell_id, writes)

\* C36: whenever update_cell raises CycleDetectedError, the graph in which
\* the cell's previous edges are replaced by its new ones contains a cycle,
\* for every pair of read and write sets with which the call can have been
\* made.
C36_RaisesOnlyForCycle ==
    [][(n_graph_ops' # n_graph_ops /\ call'.op = "update_cell" /\ call'.raised)
        => \A reads, writes \in SUBSET Names :
              ([raised |-> TRUE, graph |-> graph'] \in UpdateCell(graph, call'.cell_id, reads, writes))
              => ~IsDAG(ReplacedEdges(graph, call'.cell_id, reads, writes))]_vars

\* The cells currently registered in the graph that write the name n
WritersOf(G, n) == {w \in DOMAIN G.cell_writes : n \in G.cell_writes[w]}

\* C38: every registered cell that reads a name which another registered
\* cell currently writes has an incoming edge from a cell that writes the
\* name.
C38_ReaderHasWriterEdge ==
    \A c \in DOMAIN graph.cell_reads : \A n \in graph.cell_reads[c] :
        (WritersOf(graph, n) \ {c} # {})
        => \E w \in WritersOf(graph, n) : <<w, c>> \in graph.edges

\* Some register_cell request for the cell is still waiting in input_queue
RegisterPending(cell_id) ==
    \E i \in DOMAIN input_queue :
        input_queue[i].type = "register_cell" /\ input_queue[i].cell_id = cell_id

\* C37: whenever the kernel runs a cell of the notebook for which no
\* register_cell request is waiting, the code it runs is the code the
\* coordinator stored for the cell last.
C37_RunsStoredCode ==
    [][(~Idle /\ idx' = idx + 1 /\ cells_to_run[idx] \in DOMAIN cell_registry)
        => LET c == cells_to_run[idx]
               i == CellIndex(nb_cells, c)
           IN  (i # 0 /\ ~RegisterPending(c)) => cell_registry[c].code = nb_cells[i].code]_vars

\* A broadcast to the notebook has sent to some websocket of the set and
\* has not finished its for loop
PartWay(notebook_id) ==
    \E b \in DOMAIN broadcasts :
        /\ broadcasts[b].notebook = notebook_id
        /\ broadcasts[b].pc = "iterating"
        /\ broadcasts[b].seen # {}

\* C35: no connect or disconnect changes the set of websockets of a
\* notebook while a broadcast to the notebook is part-way through it.
C35_SetStableWhileIterating ==
    [][\A notebook_id \in Notebooks :
          (PartWay(notebook_id) /\ n_attach' # n_attach)
          => connections'[notebook_id] = connections[notebook_id]]_vars

\* C40: a call of tool_run_cell that has returned success, error or blocked
\* read a status that was assigned to the cell after the call enqueued its
\* run.
C40_ReportsOwnRun ==
    \A k \in ToolCalls :
        (tool_calls[k].pc = "returned" /\ tool_calls[k].result \in {"success", "error", "blocked"})
        => tool_calls[k].fresh

\* The cells of the two notebooks have the same ids and types in the same
\* order, and codes that are equal up to trailing whitespace
SameCells(a, b) ==
    /\ Len(a.cells) = Len(b.cells)
    /\ \A i \in DOMAIN a.cells :
         i \in DOMAIN b.cells =>
            /\ a.cells[i].id = b.cells[i].id
            /\ a.cells[i].type = b.cells[i].type
            /\ RStrip(a.cells[i].code) = RStrip(b.cells[i].code)

\* C31: after every command that wrote the file, parsing the file gives the
\* cells of the notebook that was serialized: same ids and types in the same
\* order, codes equal up to trailing whitespace.
C31_ReparseSameCells ==
    n_file_ops > 0 => SameCells(ParseNotebook(nb_file), last_saved)

\* The stored code of the cell, without trailing whitespace; one line of
\* kind "absent" when the file has no such cell
StoredCode(lines, cell_id) ==
    LET cells == ParseNotebook(lines).cells
        i == CellIndex(cells, cell_id)
    IN  IF i = 0 THEN <<[kind |-> "absent", text |-> "", id |-> 0]>> ELSE RStrip(cells[i].code)

\* C39: when a coordinator writes the file for a command on one cell, every
\* other cell is in the file afterwards exactly as it was before: what other
\* paths created, updated or deleted stays.
C39_OthersChangesKept ==
    [][(n_file_ops' = n_file_ops + 1 /\ last_store_op'.by = "coord")
        => \A c \in Cells \ {last_store_op'.cell_id} :
              StoredCode(nb_file', c) = StoredCode(nb_file, c)]_vars

====
